---- MODULE Spec2Model ----
(***************************************************************************)
(* A model of robocopyrs: the option algebra (the flag families, their     *)
(* `+`, single_variants() and token conversions), RobocopyCommand::execute *)
(* and the exit-code classifier OkExitCode::try_from.                      *)
(*                                                                         *)
(* Values are records.  A single flag is [tag |-> "DATA"], a combined      *)
(* value [tag |-> "_MULTIPLE", props |-> <<b1, ..., bN>>]; payloads are    *)
(* further fields.  Rust's 0-based array index i is position i + 1 of the  *)
(* sequence.  A panic (a failed unwrap, unreachable!(), an arithmetic      *)
(* overflow in a build with overflow checks) is the value PANIC.           *)
(***************************************************************************)
EXTENDS Integers, Sequences, FiniteSets, TLC

(***************************************************************************)
(* Bounds of the model.                                                    *)
(***************************************************************************)
\* The combined values drawn as operands have their true entries among
\* the first Width tags of their family (the all-true array is drawn too).
Width == 2
\* The path/name lists drawn as operands are empty or hold one of
\* MaxNames names.
MaxNames == 2
\* Threads(n) and InterPacketGap(n) are drawn for n in 1..MaxChoiceArg.
MaxChoiceArg == 1
\* A command drawn for execute sets at most MaxPresent of its optional
\* fields (the three recursion/purge booleans are drawn freely).
MaxPresent == 2

(***************************************************************************)
(* Rust's Option and Result, and a panic.                                  *)
(***************************************************************************)
Some(x) == [some |-> TRUE, val |-> x]
None == [some |-> FALSE]
Ok(x) == [ok |-> TRUE, val |-> x]
Err(e) == [ok |-> FALSE, err |-> e]
PANIC == [tag |-> "panic"]
IsPanic(v) == v.tag = "panic"

Flag(t) == [tag |-> t]
Multiple(arr) == [tag |-> "_MULTIPLE", props |-> arr]

(***************************************************************************)
(* The expressions every `add` repeats.                                    *)
(***************************************************************************)
\* (0..count).map(|_| { val >>= 1; val == 1 }).collect::<Vec<bool>>()
\* : entry k (1-based) is whether val shifted right k times equals 1.
ShiftScan(val, count) == [k \in 1..count |-> (val \div (2 ^ k)) = 1]

\* Vec<bool> -> [bool; n] by try_into(): Err unless the length is n.
TryIntoArray(vec, n) == IF Len(vec) = n THEN Ok(vec) ELSE Err(vec)

\* a.iter().zip(b.iter()).map(|(a, b)| *a && *b).collect::<Vec<bool>>()
ZipAnd(a, b) ==
    [i \in 1..(IF Len(a) < Len(b) THEN Len(a) ELSE Len(b)) |-> a[i] /\ b[i]]

\* items.iter().zip(exists.iter()).filter(|(_, exists)| **exists) ... .0
\* : the items whose flag is set, in the order of items.
RECURSIVE ZipFilter(_, _)
ZipFilter(items, exists) ==
    IF Len(items) = 0 \/ Len(exists) = 0 THEN <<>>
    ELSE (IF Head(exists) THEN <<Head(items)>> ELSE <<>>)
         \o ZipFilter(Tail(items), Tail(exists))

\* The String collected from a sequence of one-letter strings.
RECURSIVE Concat(_)
Concat(strs) == IF Len(strs) = 0 THEN "" ELSE Head(strs) \o Concat(Tail(strs))

\* The concatenation of a sequence of sequences.
RECURSIVE Flatten(_)
Flatten(seqs) == IF Len(seqs) = 0 THEN <<>> ELSE Head(seqs) \o Flatten(Tail(seqs))

\* 2_u8.pow(index) * 2_u8: the product overflows u8 for index 7.  A build
\* with overflow checks panics (Err); one without wraps modulo 2^8.
U8Mul(x, y, overflow_checks) ==
    IF x * y < 256 THEN Ok(x * y)
    ELSE IF overflow_checks THEN Err("attempt to multiply with overflow")
    ELSE Ok((x * y) % 256)

(***************************************************************************)
(* FileProperties (lib.rs)                                                 *)
(***************************************************************************)
FileProperties_VARIANTS ==
    << Flag("DATA"), Flag("ATTRIBUTES"), Flag("TIME_STAMPS"),
       Flag("NTFS_ACCESS_CONTROL_LIST"), Flag("OWNER_INFO"),
       Flag("AUDITING_INFO") >>

FileProperties_index_of(self) ==
    CASE self.tag = "DATA" -> Some(0)
      [] self.tag = "ATTRIBUTES" -> Some(1)
      [] self.tag = "TIME_STAMPS" -> Some(2)
      [] self.tag = "NTFS_ACCESS_CONTROL_LIST" -> Some(3)
      [] self.tag = "OWNER_INFO" -> Some(4)
      [] self.tag = "AUDITING_INFO" -> Some(5)
      [] OTHER -> None

FileProperties_all == Multiple([i \in 1..6 |-> TRUE])
FileProperties_none == Multiple([i \in 1..6 |-> FALSE])

FileProperties_add(self, rhs) ==
    LET result_props ==
            IF self.tag = "_MULTIPLE" THEN Ok(self.props)
            ELSE LET index == FileProperties_index_of(self)
                 IN  IF ~index.some THEN Err("unwrap on None")
                     ELSE TryIntoArray(ShiftScan(2 ^ index.val + 2, 6), 6)
    IN  IF ~result_props.ok THEN PANIC
        ELSE IF rhs.tag = "_MULTIPLE"
        THEN LET anded == TryIntoArray(ZipAnd(result_props.val, rhs.props), 6)
             IN  IF anded.ok THEN Multiple(anded.val) ELSE PANIC
        ELSE LET index == FileProperties_index_of(rhs)
             IN  IF ~index.some THEN PANIC
                 ELSE Multiple([result_props.val EXCEPT ![index.val + 1] = TRUE])

\* From<&FileProperties> for OsString: one token.
FileProperties_from(fp) ==
    CASE fp.tag = "DATA" -> "/copy:D"
      [] fp.tag = "ATTRIBUTES" -> "/copy:A"
      [] fp.tag = "TIME_STAMPS" -> "/copy:T"
      [] fp.tag = "NTFS_ACCESS_CONTROL_LIST" -> "/copy:S"
      [] fp.tag = "OWNER_INFO" -> "/copy:O"
      [] fp.tag = "AUDITING_INFO" -> "/copy:U"
      [] fp.tag = "_MULTIPLE" ->
            "/copy:" \o Concat(ZipFilter(<<"D", "A", "T", "S", "O", "U">>, fp.props))

\* A decomposer that hands back the value it was given.
FileProperties_single_variants_identity(self) == <<self>>

FileProperties_single_variants(self) ==
    IF self.tag = "_MULTIPLE" THEN ZipFilter(FileProperties_VARIANTS, self.props)
    ELSE <<self>>

(***************************************************************************)
(* DirectoryProperties (lib.rs)                                            *)
(***************************************************************************)
DirectoryProperties_VARIANTS ==
    << Flag("DATA"), Flag("ATTRIBUTES"), Flag("TIME_STAMPS") >>

\* index_of with TIME_STAMPS sharing the index of ATTRIBUTES.
DirectoryProperties_index_of_shared(self) ==
    CASE self.tag = "DATA" -> Some(0)
      [] self.tag = "ATTRIBUTES" -> Some(1)
      [] self.tag = "TIME_STAMPS" -> Some(1)
      [] OTHER -> None

DirectoryProperties_index_of(self) ==
    CASE self.tag = "DATA" -> Some(0)
      [] self.tag = "ATTRIBUTES" -> Some(1)
      [] self.tag = "TIME_STAMPS" -> Some(2)
      [] OTHER -> None

DirectoryProperties_all == Multiple([i \in 1..3 |-> TRUE])
DirectoryProperties_none == Multiple([i \in 1..3 |-> FALSE])

DirectoryProperties_add(self, rhs) ==
    LET result_props ==
            IF self.tag = "_MULTIPLE" THEN Ok(self.props)
            ELSE LET index == DirectoryProperties_index_of(self)
                 IN  IF ~index.some THEN Err("unwrap on None")
                     ELSE TryIntoArray(ShiftScan(2 ^ index.val + 2, 3), 3)
    IN  IF ~result_props.ok THEN PANIC
        ELSE IF rhs.tag = "_MULTIPLE"
        THEN LET anded == TryIntoArray(ZipAnd(result_props.val, rhs.props), 3)
             IN  IF anded.ok THEN Multiple(anded.val) ELSE PANIC
        ELSE LET index == DirectoryProperties_index_of(rhs)
             IN  IF ~index.some THEN PANIC
                 ELSE Multiple([result_props.val EXCEPT ![index.val + 1] = TRUE])

\* From<&DirectoryProperties> for OsString: one token.
DirectoryProperties_from(dp) ==
    CASE dp.tag = "DATA" -> "/dcopy:D"
      [] dp.tag = "ATTRIBUTES" -> "/dcopy:A"
      [] dp.tag = "TIME_STAMPS" -> "/dcopy:T"
      [] dp.tag = "_MULTIPLE" ->
            "/dcopy:" \o Concat(ZipFilter(<<"D", "A", "T">>, dp.props))

DirectoryProperties_single_variants(self) ==
    IF self.tag = "_MULTIPLE" THEN ZipFilter(DirectoryProperties_VARIANTS, self.props)
    ELSE <<self>>

(***************************************************************************)
(* FileAttributes (lib.rs)                                                 *)
(***************************************************************************)
FileAttributes_VARIANTS ==
    << Flag("READ_ONLY"), Flag("ARCHIVE"), Flag("SYSTEM"), Flag("HIDDEN"),
       Flag("COMPRESSED"), Flag("NOT_CONTENT_INDEXED"), Flag("ENCRYPTED"),
       Flag("TEMPORARY") >>

FileAttributes_index_of(self) ==
    CASE self.tag = "READ_ONLY" -> Some(0)
      [] self.tag = "ARCHIVE" -> Some(1)
      [] self.tag = "SYSTEM" -> Some(2)
      [] self.tag = "HIDDEN" -> Some(3)
      [] self.tag = "COMPRESSED" -> Some(4)
      [] self.tag = "NOT_CONTENT_INDEXED" -> Some(5)
      [] self.tag = "ENCRYPTED" -> Some(6)
      [] self.tag = "TEMPORARY" -> Some(7)
      [] OTHER -> None

FileAttributes_all == Multiple([i \in 1..8 |-> TRUE])
FileAttributes_none == Multiple([i \in 1..8 |-> FALSE])

\* The single-flag arm multiplies (2^index * 2) and scans 6 entries into
\* a [bool; 8].
FileAttributes_add(self, rhs, overflow_checks) ==
    LET result_attribs ==
            IF self.tag = "_MULTIPLE" THEN Ok(self.props)
            ELSE LET index == FileAttributes_index_of(self)
                 IN  IF ~index.some THEN Err("unwrap on None")
                     ELSE LET val == U8Mul(2 ^ index.val, 2, overflow_checks)
                          IN  IF ~val.ok THEN val
                              ELSE TryIntoArray(ShiftScan(val.val, 6), 8)
    IN  IF ~result_attribs.ok THEN PANIC
        ELSE IF rhs.tag = "_MULTIPLE"
        THEN LET anded == TryIntoArray(ZipAnd(result_attribs.val, rhs.props), 8)
             IN  IF anded.ok THEN Multiple(anded.val) ELSE PANIC
        ELSE LET index == FileAttributes_index_of(rhs)
             IN  IF ~index.some THEN PANIC
                 ELSE Multiple([result_attribs.val EXCEPT ![index.val + 1] = TRUE])

\* From<&FileAttributes> for OsString: the letters of the present attributes.
FileAttributes_from(fa) ==
    CASE fa.tag = "READ_ONLY" -> "R"
      [] fa.tag = "ARCHIVE" -> "A"
      [] fa.tag = "SYSTEM" -> "S"
      [] fa.tag = "HIDDEN" -> "H"
      [] fa.tag = "COMPRESSED" -> "C"
      [] fa.tag = "NOT_CONTENT_INDEXED" -> "N"
      [] fa.tag = "ENCRYPTED" -> "E"
      [] fa.tag = "TEMPORARY" -> "T"
      [] fa.tag = "_MULTIPLE" ->
            Concat(ZipFilter(<<"R", "A", "S", "H", "C", "N", "E", "T">>, fa.props))

FileAttributes_single_variants(self) ==
    IF self.tag = "_MULTIPLE" THEN ZipFilter(FileAttributes_VARIANTS, self.props)
    ELSE <<self>>

(***************************************************************************)
(* PostCopyActions (lib.rs)                                                *)
(***************************************************************************)
AddAttribsToFiles(attribs) == [tag |-> "AddAttribsToFiles", attribs |-> attribs]
RmvAttribsFromFiles(attribs) == [tag |-> "RmvAttribsFromFiles", attribs |-> attribs]
PostCopyActions_MULTIPLE(add, rmv) == [tag |-> "_MULTIPLE", add |-> add, rmv |-> rmv]

\* `if let Some(attribs) = slot { slot = Some(attribs + more) }`
PlusIfSome(slot, more, overflow_checks) ==
    IF slot.some THEN Some(FileAttributes_add(slot.val, more, overflow_checks))
    ELSE slot

PostCopyActions_add(self, rhs, overflow_checks) ==
    LET lhs == CASE self.tag = "_MULTIPLE" -> <<Some(self.add), Some(self.rmv)>>
                 [] self.tag = "AddAttribsToFiles" -> <<None, Some(self.attribs)>>
                 [] self.tag = "RmvAttribsFromFiles" -> <<Some(self.attribs), None>>
        add_attribs ==
            CASE rhs.tag = "_MULTIPLE" -> PlusIfSome(lhs[1], rhs.add, overflow_checks)
              [] rhs.tag = "AddAttribsToFiles" ->
                    PlusIfSome(lhs[1], rhs.attribs, overflow_checks)
              [] rhs.tag = "RmvAttribsFromFiles" -> lhs[1]
        rmv_attribs ==
            CASE rhs.tag = "_MULTIPLE" -> PlusIfSome(lhs[2], rhs.rmv, overflow_checks)
              [] rhs.tag = "AddAttribsToFiles" -> lhs[2]
              [] rhs.tag = "RmvAttribsFromFiles" ->
                    PlusIfSome(lhs[2], rhs.attribs, overflow_checks)
    IN  IF \/ add_attribs.some /\ IsPanic(add_attribs.val)
           \/ rmv_attribs.some /\ IsPanic(rmv_attribs.val)
        THEN PANIC
        ELSE CASE add_attribs.some /\ rmv_attribs.some ->
                    PostCopyActions_MULTIPLE(add_attribs.val, rmv_attribs.val)
               [] ~add_attribs.some /\ rmv_attribs.some ->
                    RmvAttribsFromFiles(rmv_attribs.val)
               [] add_attribs.some /\ ~rmv_attribs.some ->
                    AddAttribsToFiles(add_attribs.val)
               [] OTHER -> PANIC

\* From<&PostCopyActions> for Vec<OsString>
PostCopyActions_from(pca) ==
    CASE pca.tag = "AddAttribsToFiles" -> << "/a+:" \o FileAttributes_from(pca.attribs) >>
      [] pca.tag = "RmvAttribsFromFiles" -> << "/a-:" \o FileAttributes_from(pca.attribs) >>
      [] pca.tag = "_MULTIPLE" ->
            << "/a+:" \o FileAttributes_from(pca.add),
               "/a-:" \o FileAttributes_from(pca.rmv) >>

\* single_variants() with the two elements in the other order.
PostCopyActions_single_variants_rmv_first(self) ==
    IF self.tag = "_MULTIPLE"
    THEN << RmvAttribsFromFiles(self.rmv), AddAttribsToFiles(self.add) >>
    ELSE <<self>>

PostCopyActions_single_variants(self) ==
    IF self.tag = "_MULTIPLE"
    THEN << AddAttribsToFiles(self.add), RmvAttribsFromFiles(self.rmv) >>
    ELSE <<self>>

(***************************************************************************)
(* FilesystemOptions (lib.rs): no `+`, only the token conversion.          *)
(***************************************************************************)
FilesystemOptions_from(fso) ==
    CASE fso.tag = "FAT_FILE_NAMES" -> <<"/fat">>
      [] fso.tag = "ASSUME_FAT_FILE_TIMES" -> <<"/fft">>
      [] fso.tag = "DISABLE_LONG_PATHS" -> <<"/256">>
      [] fso.tag = "_MULTIPLE" -> ZipFilter(<<"/fat", "/fft", "/256">>, fso.props)

(***************************************************************************)
(* CopyMode and Move (lib.rs)                                              *)
(***************************************************************************)
CopyMode_from(cm) ==
    CASE cm.tag = "RESTARTABLE_MODE" -> "/z"
      [] cm.tag = "BACKUP_MODE" -> "/b"
      [] cm.tag = "RESTARTABLE_MODE_BACKUP_MODE_FALLBACK" -> "/zb"

Move_from(mv) ==
    CASE mv.tag = "FILES" -> "/mov"
      [] mv.tag = "FILES_AND_DIRS" -> "/move"

(***************************************************************************)
(* FileExclusionFilter (filter.rs)                                         *)
(***************************************************************************)
Attributes(attribs) == [tag |-> "Attributes", attribs |-> attribs]
PathOrName(paths) == [tag |-> "PathOrName", paths |-> paths]
FileExclusionFilter_MULTIPLE(attribs, paths, filters) ==
    [tag |-> "_MULTIPLE", attribs |-> attribs, paths |-> paths, props |-> filters]

FileExclusionFilter_VARIANTS ==
    << Flag("CHANGED"), Flag("OLDER"), Flag("NEWER"), Flag("JUNCTION_POINTS") >>

\* OLDER has no arm: it falls to `_ => None`.
FileExclusionFilter_index_of(self) ==
    CASE self.tag = "CHANGED" -> Some(0)
      [] self.tag = "NEWER" -> Some(2)
      [] self.tag = "JUNCTION_POINTS" -> Some(3)
      [] OTHER -> None

\* `Some(res_attribs) => Some(attribs + res_attribs), None => Some(attribs)`
\* : the right operand's attributes are the left operand of the inner `+`.
MergeAttribs(attribs, result_attribs, overflow_checks) ==
    IF result_attribs.some
    THEN Some(FileAttributes_add(attribs, result_attribs.val, overflow_checks))
    ELSE Some(attribs)

FileExclusionFilter_add(self, rhs, overflow_checks) ==
    LET none4 == [i \in 1..4 |-> FALSE]
        lhs ==
            CASE self.tag = "_MULTIPLE" ->
                    Ok([attribs |-> self.attribs, paths |-> self.paths,
                        filters |-> self.props])
              [] self.tag = "Attributes" ->
                    Ok([attribs |-> Some(self.attribs), paths |-> <<>>,
                        filters |-> none4])
              [] self.tag = "PathOrName" ->
                    Ok([attribs |-> None, paths |-> self.paths, filters |-> none4])
              [] OTHER ->
                    LET index == FileExclusionFilter_index_of(self)
                    IN  IF ~index.some THEN Err("unwrap on None")
                        ELSE LET arr == TryIntoArray(ShiftScan(2 ^ index.val + 2, 6), 4)
                             IN  IF ~arr.ok THEN arr
                                 ELSE Ok([attribs |-> None, paths |-> <<>>,
                                          filters |-> arr.val])
    IN  IF ~lhs.ok THEN PANIC
        ELSE
        LET l == lhs.val
            res ==
              CASE rhs.tag = "_MULTIPLE" ->
                    LET anded == TryIntoArray(ZipAnd(l.filters, rhs.props), 4)
                    IN  IF ~anded.ok THEN anded
                        ELSE Ok([attribs |-> IF rhs.attribs.some
                                             THEN MergeAttribs(rhs.attribs.val, l.attribs,
                                                               overflow_checks)
                                             ELSE l.attribs,
                                 paths |-> l.paths \o rhs.paths,
                                 filters |-> anded.val])
                [] rhs.tag = "Attributes" ->
                    Ok([l EXCEPT !.attribs =
                            MergeAttribs(rhs.attribs, l.attribs, overflow_checks)])
                [] rhs.tag = "PathOrName" ->
                    Ok([l EXCEPT !.paths = l.paths \o rhs.paths])
                [] OTHER ->
                    LET index == FileExclusionFilter_index_of(rhs)
                    IN  IF ~index.some THEN Err("unwrap on None")
                        ELSE Ok([l EXCEPT !.filters[index.val + 1] = TRUE])
        IN  IF ~res.ok THEN PANIC
            ELSE IF res.val.attribs.some /\ IsPanic(res.val.attribs.val) THEN PANIC
            ELSE FileExclusionFilter_MULTIPLE(res.val.attribs, res.val.paths,
                                              res.val.filters)

\* A decomposer that hands back the value it was given.
FileExclusionFilter_single_variants_identity(self) == <<self>>

FileExclusionFilter_single_variants(self) ==
    IF self.tag = "_MULTIPLE"
    THEN ZipFilter(FileExclusionFilter_VARIANTS, self.props)
         \o (IF self.attribs.some THEN <<Attributes(self.attribs.val)>> ELSE <<>>)
         \o (IF self.paths # <<>> THEN <<PathOrName(self.paths)>> ELSE <<>>)
    ELSE <<self>>

\* The tokens one element of single_variants() contributes; a _MULTIPLE
\* element reaches unreachable!().
FileExclusionFilter_token(filter) ==
    CASE filter.tag = "Attributes" -> Ok(<< "/xa:" \o FileAttributes_from(filter.attribs) >>)
      [] filter.tag = "PathOrName" -> Ok(<<"/xf">> \o filter.paths)
      [] filter.tag = "CHANGED" -> Ok(<<"/xc">>)
      [] filter.tag = "OLDER" -> Ok(<<"/xo">>)
      [] filter.tag = "NEWER" -> Ok(<<"/xn">>)
      [] filter.tag = "JUNCTION_POINTS" -> Ok(<<"/xjf">>)
      [] OTHER -> Err("unreachable")

\* for_each over single_variants(): the tokens in order, or PANIC when an
\* element reaches unreachable!().
TokensOf(results) ==
    IF \E i \in 1..Len(results) : ~results[i].ok THEN PANIC
    ELSE [tag |-> "tokens",
          args |-> Flatten([i \in 1..Len(results) |-> results[i].val])]

\* From<&FileExclusionFilter> for Vec<OsString>
FileExclusionFilter_from(fef) ==
    TokensOf(LET filters == FileExclusionFilter_single_variants(fef)
             IN  [i \in 1..Len(filters) |-> FileExclusionFilter_token(filters[i])])

(***************************************************************************)
(* DirectoryExclusionFilter (filter.rs)                                    *)
(***************************************************************************)
Both(paths) == [tag |-> "_BOTH", paths |-> paths]

DirectoryExclusionFilter_add(self, rhs) ==
    LET lhs_junction == self.tag = "JUNCTION_POINTS"
        lhs_paths == IF self.tag = "JUNCTION_POINTS" THEN <<>> ELSE self.paths
        result_path_or_name ==
            IF rhs.tag \in {"PathOrName", "_BOTH"} THEN lhs_paths \o rhs.paths
            ELSE lhs_paths
        junction_pts == lhs_junction \/ rhs.tag \notin {"PathOrName", "_BOTH"}
    IN  IF junction_pts THEN Both(result_path_or_name)
        ELSE PathOrName(result_path_or_name)

DirectoryExclusionFilter_single_variants(self) ==
    CASE self.tag = "_BOTH" -> << Flag("JUNCTION_POINTS"), PathOrName(self.paths) >>
      [] self.tag = "JUNCTION_POINTS" -> << Flag("JUNCTION_POINTS") >>
      [] self.tag = "PathOrName" -> << PathOrName(self.paths) >>

DirectoryExclusionFilter_token(filter) ==
    CASE filter.tag = "PathOrName" -> Ok(<<"/xd">> \o filter.paths)
      [] filter.tag = "JUNCTION_POINTS" -> Ok(<<"/xjd">>)
      [] OTHER -> Err("unreachable")

\* From<&DirectoryExclusionFilter> for Vec<OsString>
DirectoryExclusionFilter_from(def) ==
    TokensOf(LET filters == DirectoryExclusionFilter_single_variants(def)
             IN  [i \in 1..Len(filters) |-> DirectoryExclusionFilter_token(filters[i])])

(***************************************************************************)
(* FileAndDirectoryExclusionFilter (filter.rs)                             *)
(***************************************************************************)
FileAndDirectoryExclusionFilter_VARIANTS ==
    << Flag("EXTRA"), Flag("LONELY"), Flag("JUNCTION_POINTS") >>

FileAndDirectoryExclusionFilter_index_of(self) ==
    CASE self.tag = "EXTRA" -> Some(0)
      [] self.tag = "LONELY" -> Some(1)
      [] self.tag = "JUNCTION_POINTS" -> Some(2)
      [] OTHER -> None

\* The single-flag arm scans 6 entries into a [bool; 3].
FileAndDirectoryExclusionFilter_add(self, rhs) ==
    LET result_filters ==
            IF self.tag = "_MULTIPLE" THEN Ok(self.props)
            ELSE LET index == FileAndDirectoryExclusionFilter_index_of(self)
                 IN  IF ~index.some THEN Err("unwrap on None")
                     ELSE TryIntoArray(ShiftScan(2 ^ index.val + 2, 6), 3)
    IN  IF ~result_filters.ok THEN PANIC
        ELSE IF rhs.tag = "_MULTIPLE"
        THEN LET anded == TryIntoArray(ZipAnd(result_filters.val, rhs.props), 3)
             IN  IF anded.ok THEN Multiple(anded.val) ELSE PANIC
        ELSE LET index == FileAndDirectoryExclusionFilter_index_of(rhs)
             IN  IF ~index.some THEN PANIC
                 ELSE Multiple([result_filters.val EXCEPT ![index.val + 1] = TRUE])

FileAndDirectoryExclusionFilter_single_variants(self) ==
    IF self.tag = "_MULTIPLE"
    THEN ZipFilter(FileAndDirectoryExclusionFilter_VARIANTS, self.props)
    ELSE <<self>>

FileAndDirectoryExclusionFilter_token(filter) ==
    CASE filter.tag = "EXTRA" -> Ok(<<"/xx">>)
      [] filter.tag = "LONELY" -> Ok(<<"/xl">>)
      [] filter.tag = "JUNCTION_POINTS" -> Ok(<<"/xj">>)
      [] OTHER -> Err("unreachable")

\* From<&FileAndDirectoryExclusionFilter> for Vec<OsString>
FileAndDirectoryExclusionFilter_from(fadef) ==
    TokensOf(LET filters == FileAndDirectoryExclusionFilter_single_variants(fadef)
             IN  [i \in 1..Len(filters) |-> FileAndDirectoryExclusionFilter_token(filters[i])])

(***************************************************************************)
(* FileExclusionFilterException (filter.rs)                                *)
(***************************************************************************)
FileExclusionFilterException_VARIANTS ==
    << Flag("MODIFIED"), Flag("SAME"), Flag("TWEAKED") >>

FileExclusionFilterException_index_of(self) ==
    CASE self.tag = "MODIFIED" -> Some(0)
      [] self.tag = "SAME" -> Some(1)
      [] self.tag = "TWEAKED" -> Some(2)
      [] OTHER -> None

\* The single-flag arm scans 6 entries into a [bool; 3].
FileExclusionFilterException_add(self, rhs) ==
    LET result_filters ==
            IF self.tag = "_MULTIPLE" THEN Ok(self.props)
            ELSE LET index == FileExclusionFilterException_index_of(self)
                 IN  IF ~index.some THEN Err("unwrap on None")
                     ELSE TryIntoArray(ShiftScan(2 ^ index.val + 2, 6), 3)
    IN  IF ~result_filters.ok THEN PANIC
        ELSE IF rhs.tag = "_MULTIPLE"
        THEN LET anded == TryIntoArray(ZipAnd(result_filters.val, rhs.props), 3)
             IN  IF anded.ok THEN Multiple(anded.val) ELSE PANIC
        ELSE LET index == FileExclusionFilterException_index_of(rhs)
             IN  IF ~index.some THEN PANIC
                 ELSE Multiple([result_filters.val EXCEPT ![index.val + 1] = TRUE])

FileExclusionFilterException_single_variants(self) ==
    IF self.tag = "_MULTIPLE"
    THEN ZipFilter(FileExclusionFilterException_VARIANTS, self.props)
    ELSE <<self>>

FileExclusionFilterException_token(filter) ==
    CASE filter.tag = "MODIFIED" -> Ok(<<"/im">>)
      [] filter.tag = "SAME" -> Ok(<<"/is">>)
      [] filter.tag = "TWEAKED" -> Ok(<<"/it">>)
      [] OTHER -> Err("unreachable")

\* From<&FileExclusionFilterException> for Vec<OsString>
FileExclusionFilterException_from(fefe) ==
    TokensOf(LET filters == FileExclusionFilterException_single_variants(fefe)
             IN  [i \in 1..Len(filters) |-> FileExclusionFilterException_token(filters[i])])

(***************************************************************************)
(* PerformanceChoice and PerformanceOptions (performance.rs)               *)
(***************************************************************************)
Threads(n) == [tag |-> "Threads", n |-> n]
InterPacketGap(n) == [tag |-> "InterPacketGap", n |-> n]
ChoiceDefault == [tag |-> "Default"]

PerformanceChoice_as_os_string(self) ==
    CASE self.tag = "Threads" -> Some("/MT:" \o ToString(self.n))
      [] self.tag = "InterPacketGap" -> Some("/ipg:" \o ToString(self.n))
      [] OTHER -> None

PerformanceOption(t, choice) == [tag |-> t, choice |-> choice]
PerformanceOptions_MULTIPLE(filters, choice) ==
    [tag |-> "_MULTIPLE", props |-> filters, choice |-> choice]
PerformanceOptions_Default == [tag |-> "Default"]

\* `+` on PerformanceOptions returns a Result.
PerfOk(v) == [tag |-> "Ok", val |-> v]
PerfErr(msg) == [tag |-> "Err", err |-> msg]

PerformanceOptions_index_of(self) ==
    CASE self.tag = "DONT_OFFLOAD" -> Some(0)
      [] self.tag = "REQUEST_NETWORK_COMPRESSION" -> Some(1)
      [] self.tag = "COPY_RATHER_THAN_FOLLOW_LINK" -> Some(2)
      [] OTHER -> None

PerformanceOptions_performance_choice(self) ==
    IF self.tag = "Default" THEN ChoiceDefault ELSE self.choice

\* The single-flag arm scans 6 entries into a [bool; 3].
PerformanceOptions_add(self, rhs) ==
    LET lhs_choice == PerformanceOptions_performance_choice(self)
        result_filters ==
            IF self.tag = "_MULTIPLE" THEN Ok(self.props)
            ELSE LET index == PerformanceOptions_index_of(self)
                 IN  IF index.some
                     THEN TryIntoArray(ShiftScan(2 ^ index.val + 2, 6), 3)
                     ELSE Ok([i \in 1..3 |-> FALSE])
        rhs_choice == PerformanceOptions_performance_choice(rhs)
        mismatch == /\ rhs_choice # lhs_choice
                    /\ lhs_choice # ChoiceDefault
                    /\ rhs_choice # ChoiceDefault
        perf_choice == IF rhs_choice # lhs_choice /\ lhs_choice = ChoiceDefault
                       THEN rhs_choice ELSE lhs_choice
    IN  IF ~result_filters.ok THEN PANIC
        ELSE IF mismatch THEN PerfErr("Performance choices do not match.")
        ELSE IF rhs.tag = "_MULTIPLE"
        THEN LET anded == TryIntoArray(ZipAnd(result_filters.val, rhs.props), 3)
             IN  IF anded.ok
                 THEN PerfOk(PerformanceOptions_MULTIPLE(anded.val, perf_choice))
                 ELSE PANIC
        ELSE LET index == PerformanceOptions_index_of(rhs)
             IN  PerfOk(PerformanceOptions_MULTIPLE(
                     IF index.some
                     THEN [result_filters.val EXCEPT ![index.val + 1] = TRUE]
                     ELSE result_filters.val,
                     perf_choice))

PerformanceOptions_single_variants(self) ==
    IF self.tag = "_MULTIPLE"
    THEN ZipFilter(<< PerformanceOption("DONT_OFFLOAD", self.choice),
                      PerformanceOption("REQUEST_NETWORK_COMPRESSION", self.choice),
                      PerformanceOption("COPY_RATHER_THAN_FOLLOW_LINK", self.choice) >>,
                   self.props)
    ELSE <<self>>

PerformanceOptions_token(filter) ==
    CASE filter.tag = "DONT_OFFLOAD" -> Ok(<<"/nooffload">>)
      [] filter.tag = "REQUEST_NETWORK_COMPRESSION" -> Ok(<<"/compress">>)
      [] filter.tag = "COPY_RATHER_THAN_FOLLOW_LINK" -> Ok(<<"/sl">>)
      [] filter.tag \in {"PerformanceChoiceOnly", "Default"} -> Ok(<<>>)
      [] OTHER -> Err("unreachable")

\* From<&PerformanceOptions> for Vec<OsString>: the choice token, if any,
\* then the tokens of single_variants().
PerformanceOptions_from(po) ==
    LET choice == PerformanceChoice_as_os_string(PerformanceOptions_performance_choice(po))
        flags == TokensOf(LET filters == PerformanceOptions_single_variants(po)
             IN  [i \in 1..Len(filters) |-> PerformanceOptions_token(filters[i])])
    IN  IF IsPanic(flags) THEN PANIC
        ELSE [tag |-> "tokens",
              args |-> (IF choice.some THEN <<choice.val>> ELSE <<>>) \o flags.args]

(***************************************************************************)
(* RetrySettings (performance.rs) and LoggingSettings (logging.rs)         *)
(***************************************************************************)
RetrySettings_from(rs) ==
    (IF rs.specify_retries_failed_copies.some
     THEN << "/r:" \o ToString(rs.specify_retries_failed_copies.val) >> ELSE <<>>)
    \o (IF rs.specify_wait_between_retries.some
        THEN << "/w:" \o ToString(rs.specify_wait_between_retries.val) >> ELSE <<>>)
    \o (IF rs.save_specifications THEN <<"/reg">> ELSE <<>>)
    \o (IF rs.await_share_names_def THEN <<"/tbd">> ELSE <<>>)

LoggingSettings_from(ls) ==
    "/" \o (IF ls.unicode THEN "uni" ELSE "") \o "log"
        \o (IF ls.append THEN "+" ELSE "") \o ":" \o ls.log

(***************************************************************************)
(* Filter (filter.rs)                                                      *)
(***************************************************************************)
Tokens(args) == [tag |-> "tokens", args |-> args]

\* The parts of an argument vector in reverse order.
Joined_reversed(parts) ==
    IF \E i \in 1..Len(parts) : IsPanic(parts[i]) THEN PANIC
    ELSE Tokens(Flatten([i \in 1..Len(parts) |-> parts[Len(parts) + 1 - i].args]))

\* The parts of an argument vector with the first two moved to the end.
Joined_paths_last(parts) ==
    IF \E i \in 1..Len(parts) : IsPanic(parts[i]) THEN PANIC
    ELSE Tokens(Flatten([i \in 1..Len(parts) |->
                            parts[IF i + 2 <= Len(parts) THEN i + 2
                                  ELSE i + 2 - Len(parts)].args]))

\* The parts of an argument vector in order; PANIC when a part panicked.
Joined(parts) ==
    IF \E i \in 1..Len(parts) : IsPanic(parts[i]) THEN PANIC
    ELSE Tokens(Flatten([i \in 1..Len(parts) |-> parts[i].args]))

\* `if let Some(x) = field { ... From(x) ... }`
IfSome(field, tokens_of_val) == IF field.some THEN tokens_of_val ELSE Tokens(<<>>)

Filter_default ==
    [ handle_archive_and_reset |-> FALSE,
      include_only_files_with_any_of_these_attribs |-> None,
      file_exclusion_filter |-> None,
      directory_exclusion_filter |-> None,
      file_and_directory_exclusion_filter |-> None,
      file_exclusion_filter_exceptions |-> None,
      max_size |-> None, min_size |-> None,
      max_age |-> None, min_age |-> None,
      max_last_access_date |-> None, min_last_access_date |-> None ]

\* From<&Filter> for Vec<OsString>
Filter_from(filter) ==
    LET Ia(attribs) == Tokens(<< "/ia:" \o FileAttributes_from(attribs) >>)
        Max(x) == Tokens(<< "/max:" \o ToString(x) >>)
        Min(x) == Tokens(<< "/min:" \o ToString(x) >>)
        MaxAge(x) == Tokens(<< "/maxage:" \o x >>)
        MinAge(x) == Tokens(<< "/minage:" \o x >>)
        MaxLad(x) == Tokens(<< "/maxlad:" \o x >>)
        MinLad(x) == Tokens(<< "/minlad:" \o x >>)
    IN  Joined(<<
            Tokens(IF filter.handle_archive_and_reset THEN <<"/m">> ELSE <<>>),
            IfSome(filter.include_only_files_with_any_of_these_attribs, Ia(filter.include_only_files_with_any_of_these_attribs.val)),
            IfSome(filter.file_exclusion_filter, FileExclusionFilter_from(filter.file_exclusion_filter.val)),
            IfSome(filter.directory_exclusion_filter, DirectoryExclusionFilter_from(filter.directory_exclusion_filter.val)),
            IfSome(filter.file_and_directory_exclusion_filter,
                   FileAndDirectoryExclusionFilter_from(filter.file_and_directory_exclusion_filter.val)),
            IfSome(filter.file_exclusion_filter_exceptions,
                   FileExclusionFilterException_from(filter.file_exclusion_filter_exceptions.val)),
            IfSome(filter.max_size, Max(filter.max_size.val)),
            IfSome(filter.min_size, Min(filter.min_size.val)),
            IfSome(filter.max_age, MaxAge(filter.max_age.val)),
            IfSome(filter.min_age, MinAge(filter.min_age.val)),
            IfSome(filter.max_last_access_date, MaxLad(filter.max_last_access_date.val)),
            IfSome(filter.min_last_access_date, MinLad(filter.min_last_access_date.val)) >>)

(***************************************************************************)
(* Exit codes (exit_codes.rs)                                              *)
(***************************************************************************)
\* enum OkExitCode, #[repr(i8)]: name -> discriminant
OkExitCode ==
    [ NO_CHANGE |-> 0, SOME_COPIES |-> 1, EXTRA_FOUND |-> 2,
      SOME_COPIES_EXTRA_FOUND |-> 3, MISMATCHES |-> 4,
      SOME_COPIES_MISMATCHES |-> 5, MISMATCHES_EXTRA_FOUND |-> 6,
      SOME_COPIES_MISMATCHES_EXTRA_FOUND |-> 7 ]

\* enum ErrExitCode, #[repr(i8)]: name -> discriminant
ErrExitCode ==
    [ FAIL |-> 8, SOME_COPIES_FAIL |-> 9, FAIL_EXTRA_FOUND |-> 10,
      SOME_COPIES_FAIL_EXTRA_FOUND |-> 11, FAIL_MISMATCHES |-> 12,
      SOME_COPIES_FAIL_MISMATCHES |-> 13, FAIL_MISMATCHES_EXTRA_FOUND |-> 14,
      SOME_COPIES_FAIL_MISMATCHES_EXTRA_FOUND |-> 15,
      NO_CHANGE_FATAL_ERROR |-> 16 ]

\* Result<OkExitCode, Result<ErrExitCode, (&'static str, i8)>>
Success(name) == [tag |-> "Ok", code |-> name]
Failure(name) == [tag |-> "Err", inner |-> [tag |-> "Ok", code |-> name]]
Invalid(msg, c) == [tag |-> "Err", inner |-> [tag |-> "Err", msg |-> msg, raw |-> c]]

\* The arms of the first match (n < 8): 0..7, then unreachable!().
OkExitCode_arms(n) ==
    CASE n = 0 -> Success("NO_CHANGE")
      [] n = 1 -> Success("SOME_COPIES")
      [] n = 2 -> Success("EXTRA_FOUND")
      [] n = 3 -> Success("SOME_COPIES_EXTRA_FOUND")
      [] n = 4 -> Success("MISMATCHES")
      [] n = 5 -> Success("SOME_COPIES_MISMATCHES")
      [] n = 6 -> Success("MISMATCHES_EXTRA_FOUND")
      [] n = 7 -> Success("SOME_COPIES_MISMATCHES_EXTRA_FOUND")
      [] OTHER -> PANIC

\* The arms of the second match: 8..16, then the invalid code.
ErrExitCode_arms(n) ==
    CASE n = 8 -> Failure("FAIL")
      [] n = 9 -> Failure("SOME_COPIES_FAIL")
      [] n = 10 -> Failure("FAIL_EXTRA_FOUND")
      [] n = 11 -> Failure("SOME_COPIES_FAIL_EXTRA_FOUND")
      [] n = 12 -> Failure("FAIL_MISMATCHES")
      [] n = 13 -> Failure("SOME_COPIES_FAIL_MISMATCHES")
      [] n = 14 -> Failure("FAIL_MISMATCHES_EXTRA_FOUND")
      [] n = 15 -> Failure("SOME_COPIES_FAIL_MISMATCHES_EXTRA_FOUND")
      [] n = 16 -> Failure("NO_CHANGE_FATAL_ERROR")
      [] OTHER -> Invalid("Invalid exit code", n)

\* try_from with the branch test off by one (n <= 8).
OkExitCode_try_from_off_by_one(n) ==
    IF n <= 8 THEN OkExitCode_arms(n) ELSE ErrExitCode_arms(n)

\* impl TryFrom<i8> for OkExitCode.  Every n < 8, the negative ones
\* included, takes the first match.
OkExitCode_try_from(n) ==
    IF n < 8 THEN OkExitCode_arms(n) ELSE ErrExitCode_arms(n)

(***************************************************************************)
(* RobocopyCommand (lib.rs)                                                *)
(***************************************************************************)
RobocopyCommand_default ==
    [ source |-> ".", destination |-> ".", files |-> <<>>,
      copy_mode |-> None, unbuffered |-> FALSE,
      empty_dir_copy |-> FALSE, remove_files_and_dirs_not_in_src |-> FALSE,
      only_copy_top_n_levels |-> None,
      structure_and_size_zero_files_only |-> FALSE,
      copy_file_properties |-> None, copy_dir_properties |-> None,
      filter |-> None, filesystem_options |-> None,
      performance_options |-> None, retry_settings |-> None,
      logging |-> None, mv |-> None, post_copy_actions |-> None,
      overwrite_destination_dir_sec_settings_when_mirror |-> FALSE ]

\* The recursion and purge tokens with the collapse to /mir taken
\* whenever empty_dir_copy and remove_files_and_dirs_not_in_src are set.
RecursionTokens_without_overwrite_test(self) ==
    IF self.empty_dir_copy /\ self.remove_files_and_dirs_not_in_src
    THEN <<"/mir", "/e">>
    ELSE (IF self.empty_dir_copy THEN <<"/e">> ELSE <<"/s">>)
         \o (IF self.remove_files_and_dirs_not_in_src THEN <<"/purge">> ELSE <<>>)

\* execute, lines 580-595: the recursion and purge tokens.
RecursionTokens(self) ==
    IF /\ self.empty_dir_copy
       /\ self.remove_files_and_dirs_not_in_src
       /\ self.overwrite_destination_dir_sec_settings_when_mirror
    THEN <<"/mir", "/e">>
    ELSE (IF self.empty_dir_copy THEN <<"/e">> ELSE <<"/s">>)
         \o (IF self.remove_files_and_dirs_not_in_src THEN <<"/purge">> ELSE <<>>)

\* execute, lines 565-635: the argument vector handed to Command, in the
\* order of the command.arg calls.
RobocopyCommand_args(self) ==
    LET Mode(m) == Tokens(<< CopyMode_from(m) >>)
        Lev(lev) == Tokens(<< "/lev:" \o ToString(lev) >>)
        FileProps(x) == Tokens(<< FileProperties_from(x) >>)
        DirProps(x) == Tokens(<< DirectoryProperties_from(x) >>)
        Fso(x) == Tokens(FilesystemOptions_from(x))
        Retry(x) == Tokens(RetrySettings_from(x))
        Logging(x) == Tokens(<< LoggingSettings_from(x) >>)
        Mv(x) == Tokens(<< Move_from(x) >>)
        Pca(x) == Tokens(PostCopyActions_from(x))
    IN  Joined(<<
            Tokens(<<self.source, self.destination>>),
            Tokens(self.files),
            IfSome(self.copy_mode, Mode(self.copy_mode.val)),
            Tokens(IF self.unbuffered THEN <<"/j">> ELSE <<>>),
            Tokens(RecursionTokens(self)),
            IfSome(self.only_copy_top_n_levels, Lev(self.only_copy_top_n_levels.val)),
            Tokens(IF self.structure_and_size_zero_files_only
                   THEN <<"/create">> ELSE <<>>),
            IfSome(self.copy_file_properties, FileProps(self.copy_file_properties.val)),
            IfSome(self.copy_dir_properties, DirProps(self.copy_dir_properties.val)),
            IfSome(self.filter, Filter_from(self.filter.val)),
            IfSome(self.filesystem_options, Fso(self.filesystem_options.val)),
            IfSome(self.performance_options, PerformanceOptions_from(self.performance_options.val)),
            IfSome(self.retry_settings, Retry(self.retry_settings.val)),
            IfSome(self.logging, Logging(self.logging.val)),
            IfSome(self.mv, Mv(self.mv.val)),
            IfSome(self.post_copy_actions, Pca(self.post_copy_actions.val)) >>)

\* The i32 exit status handed on as it is.
AsI8_not_narrowed(x) == x

\* `as i8` of the process's i32 exit status: the low 8 bits, two's complement.
AsI8(x) == LET low == x % 256 IN IF low >= 128 THEN low - 256 ELSE low

\* What command.status() can give: the launch failed, the process was
\* ended by a signal (code() is None), or it exited with an i32 status.
LaunchFailed == [tag |-> "launch_failed"]
Signalled == [tag |-> "signal"]
Exited(code) == [tag |-> "exited", code |-> code]

\* execute, lines 637-640: both expect() calls panic; otherwise the
\* status narrowed to i8 is classified.
RobocopyCommand_execute(self, status) ==
    IF IsPanic(RobocopyCommand_args(self)) THEN PANIC
    ELSE IF status.tag # "exited" THEN PANIC
    ELSE OkExitCode_try_from(AsI8(status.code))

(***************************************************************************)
(* The families and their operations by name.                              *)
(***************************************************************************)
Families ==
    { "FileProperties", "DirectoryProperties", "FileAttributes",
      "PostCopyActions", "FileExclusionFilter", "DirectoryExclusionFilter",
      "FileAndDirectoryExclusionFilter", "FileExclusionFilterException",
      "PerformanceOptions" }

\* self + rhs in family fam.
Add(fam, self, rhs, overflow_checks) ==
    CASE fam = "FileProperties" -> FileProperties_add(self, rhs)
      [] fam = "DirectoryProperties" -> DirectoryProperties_add(self, rhs)
      [] fam = "FileAttributes" -> FileAttributes_add(self, rhs, overflow_checks)
      [] fam = "PostCopyActions" -> PostCopyActions_add(self, rhs, overflow_checks)
      [] fam = "FileExclusionFilter" ->
            FileExclusionFilter_add(self, rhs, overflow_checks)
      [] fam = "DirectoryExclusionFilter" -> DirectoryExclusionFilter_add(self, rhs)
      [] fam = "FileAndDirectoryExclusionFilter" ->
            FileAndDirectoryExclusionFilter_add(self, rhs)
      [] fam = "FileExclusionFilterException" ->
            FileExclusionFilterException_add(self, rhs)
      [] fam = "PerformanceOptions" -> PerformanceOptions_add(self, rhs)

\* A result of `+` that can be an operand again: not a panic, not an Err.
IsValue(r) == r.tag \notin {"panic", "Err", "unset"}
\* The value a result holds (the Ok of PerformanceOptions unwrapped).
ValueOf(r) == IF r.tag = "Ok" THEN r.val ELSE r

\* l + r where l and r are results of earlier additions: a panic ends the
\* program and an Err is returned to the caller before the addition.
AddResults(fam, l, r, overflow_checks) ==
    IF ~IsValue(l) THEN l
    ELSE IF ~IsValue(r) THEN r
    ELSE Add(fam, ValueOf(l), ValueOf(r), overflow_checks)

\* self.single_variants() in family fam.
SingleVariants(fam, self) ==
    CASE fam = "FileProperties" -> FileProperties_single_variants(self)
      [] fam = "DirectoryProperties" -> DirectoryProperties_single_variants(self)
      [] fam = "FileAttributes" -> FileAttributes_single_variants(self)
      [] fam = "PostCopyActions" -> PostCopyActions_single_variants(self)
      [] fam = "FileExclusionFilter" -> FileExclusionFilter_single_variants(self)
      [] fam = "DirectoryExclusionFilter" ->
            DirectoryExclusionFilter_single_variants(self)
      [] fam = "FileAndDirectoryExclusionFilter" ->
            FileAndDirectoryExclusionFilter_single_variants(self)
      [] fam = "FileExclusionFilterException" ->
            FileExclusionFilterException_single_variants(self)
      [] fam = "PerformanceOptions" -> PerformanceOptions_single_variants(self)

\* The token conversion of family fam (the OsString of the property and
\* attribute families is a vector of one token here).
Render(fam, v) ==
    CASE fam = "FileProperties" -> Tokens(<< FileProperties_from(v) >>)
      [] fam = "DirectoryProperties" -> Tokens(<< DirectoryProperties_from(v) >>)
      [] fam = "FileAttributes" -> Tokens(<< FileAttributes_from(v) >>)
      [] fam = "PostCopyActions" -> Tokens(PostCopyActions_from(v))
      [] fam = "FileExclusionFilter" -> FileExclusionFilter_from(v)
      [] fam = "DirectoryExclusionFilter" -> DirectoryExclusionFilter_from(v)
      [] fam = "FileAndDirectoryExclusionFilter" ->
            FileAndDirectoryExclusionFilter_from(v)
      [] fam = "FileExclusionFilterException" ->
            FileExclusionFilterException_from(v)
      [] fam = "PerformanceOptions" -> PerformanceOptions_from(v)

(***************************************************************************)
(* The values a caller can construct, within the bounds.                   *)
(***************************************************************************)
Range(seq) == { seq[i] : i \in 1..Len(seq) }

AllTrue(n) == [i \in 1..n |-> TRUE]
\* The [bool; n] arrays whose true entries are among the first Width.
NarrowArrays(n) == { arr \in [1..n -> BOOLEAN] : \A i \in 1..n : arr[i] => i <= Width }
BoolArrays(n) == NarrowArrays(n) \cup { AllTrue(n) }

FilePropertiesValues ==
    Range(FileProperties_VARIANTS) \cup { Multiple(arr) : arr \in BoolArrays(6) }
DirectoryPropertiesValues ==
    Range(DirectoryProperties_VARIANTS) \cup { Multiple(arr) : arr \in BoolArrays(3) }
FileAttributesValues ==
    Range(FileAttributes_VARIANTS) \cup { Multiple(arr) : arr \in BoolArrays(8) }

\* The attribute payloads carried inside other families.
AttribArrays == { Multiple(arr) : arr \in NarrowArrays(8) }
AttribPayloads ==
    { FileAttributes_VARIANTS[i] : i \in 1..(IF Width < 8 THEN Width ELSE 8) }
    \cup AttribArrays

PostCopyActionsValues ==
    { AddAttribsToFiles(p) : p \in AttribPayloads }
    \cup { RmvAttribsFromFiles(p) : p \in AttribPayloads }
    \cup { PostCopyActions_MULTIPLE(x, y) : x \in AttribArrays, y \in AttribArrays }

PathLists == { <<>> } \cup { << "p" \o ToString(i) >> : i \in 1..MaxNames }

FileExclusionFilterValues ==
    { Attributes(p) : p \in AttribPayloads }
    \cup { PathOrName(l) : l \in PathLists }
    \cup Range(FileExclusionFilter_VARIANTS)
    \cup { FileExclusionFilter_MULTIPLE(o, l, arr) :
             o \in { None, Some(Flag("READ_ONLY")) }
                   \cup { Some(Multiple([i \in 1..8 |-> i = k])) :
                            k \in 1..(IF Width < 8 THEN Width ELSE 8) },
             l \in PathLists,
             arr \in NarrowArrays(4) }

DirectoryExclusionFilterValues ==
    { PathOrName(l) : l \in PathLists } \cup { Flag("JUNCTION_POINTS") }
    \cup { Both(l) : l \in PathLists }

FileAndDirectoryExclusionFilterValues ==
    Range(FileAndDirectoryExclusionFilter_VARIANTS)
    \cup { Multiple(arr) : arr \in BoolArrays(3) }

FileExclusionFilterExceptionValues ==
    Range(FileExclusionFilterException_VARIANTS)
    \cup { Multiple(arr) : arr \in BoolArrays(3) }

PerformanceChoices ==
    { ChoiceDefault } \cup { Threads(n) : n \in 1..MaxChoiceArg }
    \cup { InterPacketGap(n) : n \in 1..MaxChoiceArg }

PerformanceOptionsValues ==
    { PerformanceOptions_Default }
    \cup { PerformanceOption(t, ch) :
             t \in { "PerformanceChoiceOnly", "DONT_OFFLOAD",
                     "REQUEST_NETWORK_COMPRESSION", "COPY_RATHER_THAN_FOLLOW_LINK" },
             ch \in PerformanceChoices }
    \cup { PerformanceOptions_MULTIPLE(arr, ch) :
             arr \in BoolArrays(3), ch \in PerformanceChoices }

Operands(fam) ==
    CASE fam = "FileProperties" -> FilePropertiesValues
      [] fam = "DirectoryProperties" -> DirectoryPropertiesValues
      [] fam = "FileAttributes" -> FileAttributesValues
      [] fam = "PostCopyActions" -> PostCopyActionsValues
      [] fam = "FileExclusionFilter" -> FileExclusionFilterValues
      [] fam = "DirectoryExclusionFilter" -> DirectoryExclusionFilterValues
      [] fam = "FileAndDirectoryExclusionFilter" ->
            FileAndDirectoryExclusionFilterValues
      [] fam = "FileExclusionFilterException" -> FileExclusionFilterExceptionValues
      [] fam = "PerformanceOptions" -> PerformanceOptionsValues

\* The third operands drawn for (a + b) + c and a + (b + c).
ThirdOperands(fam) ==
    CASE fam = "FileProperties" ->
            { Flag("DATA"), Flag("TIME_STAMPS"), FileProperties_all }
      [] fam = "DirectoryProperties" ->
            { Flag("DATA"), Flag("TIME_STAMPS"), DirectoryProperties_all }
      [] fam = "FileAttributes" ->
            { Flag("READ_ONLY"), Flag("TEMPORARY"), FileAttributes_all }
      [] fam = "PostCopyActions" ->
            { AddAttribsToFiles(FileAttributes_all),
              RmvAttribsFromFiles(Flag("READ_ONLY")),
              PostCopyActions_MULTIPLE(FileAttributes_all, FileAttributes_all) }
      [] fam = "FileExclusionFilter" ->
            { Flag("CHANGED"), PathOrName(<<"p1">>),
              Attributes(FileAttributes_all) }
      [] fam = "DirectoryExclusionFilter" ->
            { Flag("JUNCTION_POINTS"), PathOrName(<<"p1">>), Both(<<"p2">>) }
      [] fam = "FileAndDirectoryExclusionFilter" ->
            { Flag("EXTRA"), Flag("JUNCTION_POINTS"), Multiple(AllTrue(3)) }
      [] fam = "FileExclusionFilterException" ->
            { Flag("MODIFIED"), Flag("TWEAKED"), Multiple(AllTrue(3)) }
      [] fam = "PerformanceOptions" ->
            { PerformanceOptions_Default,
              PerformanceOption("PerformanceChoiceOnly", Threads(1)),
              PerformanceOptions_MULTIPLE(AllTrue(3), ChoiceDefault) }

(***************************************************************************)
(* The commands a caller can construct, within the bounds.                 *)
(***************************************************************************)
\* One optional field of RobocopyCommand, or of its Filter, set to a value.
Setting(field, val) == [filter |-> FALSE, field |-> field, val |-> val]
FilterSetting(field, val) == [filter |-> TRUE, field |-> field, val |-> val]

Settings ==
    << Setting("files", <<"*.txt">>),
      Setting("copy_mode", Some(Flag("RESTARTABLE_MODE_BACKUP_MODE_FALLBACK"))),
      Setting("unbuffered", TRUE),
      Setting("only_copy_top_n_levels", Some(1)),
      Setting("structure_and_size_zero_files_only", TRUE),
      Setting("copy_file_properties", Some(FileProperties_all)),
      Setting("copy_dir_properties", Some(Flag("TIME_STAMPS"))),
      Setting("filesystem_options", Some(Multiple(<<TRUE, FALSE, TRUE>>))),
      Setting("performance_options",
              Some(PerformanceOptions_MULTIPLE(<<TRUE, FALSE, TRUE>>, Threads(1)))),
      Setting("retry_settings",
              Some([ specify_retries_failed_copies |-> Some(1),
                     specify_wait_between_retries |-> None,
                     save_specifications |-> TRUE,
                     await_share_names_def |-> FALSE ])),
      Setting("logging", Some([log |-> "out.log", unicode |-> FALSE, append |-> TRUE])),
      Setting("mv", Some(Flag("FILES_AND_DIRS"))),
      Setting("post_copy_actions", Some(AddAttribsToFiles(Multiple(AllTrue(8))))),
      FilterSetting("handle_archive_and_reset", TRUE),
      FilterSetting("include_only_files_with_any_of_these_attribs",
                    Some(Flag("ARCHIVE"))),
      FilterSetting("file_exclusion_filter", Some(Flag("NEWER"))),
      FilterSetting("directory_exclusion_filter", Some(Both(<<"p1">>))),
      FilterSetting("file_and_directory_exclusion_filter", Some(Flag("EXTRA"))),
      FilterSetting("file_exclusion_filter_exceptions", Some(Flag("SAME"))),
      FilterSetting("max_size", Some(2)),
      FilterSetting("min_size", Some(1)),
      FilterSetting("max_age", Some("7")),
      FilterSetting("min_age", Some("1")),
      FilterSetting("max_last_access_date", Some("7")),
      FilterSetting("min_last_access_date", Some("1")),
      Setting("source", "src"),
      Setting("destination", "dst") >>

WithSetting(cmd, s) ==
    IF s.filter
    THEN [cmd EXCEPT !.filter =
            Some([(IF cmd.filter.some THEN cmd.filter.val ELSE Filter_default)
                  EXCEPT ![s.field] = s.val])]
    ELSE [cmd EXCEPT ![s.field] = s.val]

\* The commands with at most k optional fields set.
RECURSIVE CommandsWith(_)
CommandsWith(k) ==
    IF k = 0
    THEN { [RobocopyCommand_default EXCEPT
              !.empty_dir_copy = e,
              !.remove_files_and_dirs_not_in_src = r,
              !.overwrite_destination_dir_sec_settings_when_mirror = o] :
           e \in BOOLEAN, r \in BOOLEAN, o \in BOOLEAN }
    ELSE LET fewer == CommandsWith(k - 1)
         IN  fewer \cup { WithSetting(cmd, Settings[i]) :
                             cmd \in fewer, i \in 1..Len(Settings) }

Commands == CommandsWith(MaxPresent)

\* The i32 exit statuses drawn for the process.
ExitStatuses == { -248, 0, 8, 17, 255, 256, 264 }
Statuses == { LaunchFailed, Signalled } \cup { Exited(st) : st \in ExitStatuses }

\* The i8 codes handed to try_from directly.
I8 == (-128)..127

(***************************************************************************)
(* State.  A run exercises one component: a flag family (a caller builds   *)
(* values, adds them, decomposes and renders them), RobocopyCommand        *)
(* (execute) or OkExitCode (try_from).                                     *)
(***************************************************************************)
VARIABLES
    fam,        \* the component the run exercises
    pc,         \* where the caller is
    a, b, c,    \* the operands the caller constructed
    sum,        \* a + b
    swapped,    \* b + a
    left,       \* (a + b) + c
    right,      \* a + (b + c)
    subject,    \* the value decomposed and rendered
    variants,   \* subject.single_variants()
    tokens,     \* the token conversion of subject
    operands,      \* the values the caller set out to combine, in order
    pieces,     \* what is left to combine: the operands, adjacent ones already added
    cmd,        \* the RobocopyCommand
    status,     \* what command.status() gave
    args,       \* the argument vector execute built
    code,       \* the i8 handed to OkExitCode::try_from
    outcome     \* what try_from / execute returned

vars == << fam, pc, a, b, c, sum, swapped, left, right, subject, variants,
           tokens, operands, pieces, cmd, status, args, code, outcome >>

Unset == [tag |-> "unset"]

algebraVars == << a, b, c, sum, swapped, left, right, subject, variants, tokens,
                 operands, pieces >>
commandVars == << cmd, status, args >>

InitAlgebra ==
    /\ fam \in Families
    /\ pc = "start"
    /\ a \in Operands(fam)
    /\ b = Unset /\ c = Unset
    /\ sum = Unset /\ swapped = Unset /\ left = Unset /\ right = Unset
    /\ subject = Unset /\ variants = <<>> /\ tokens = Unset
    /\ operands = <<>> /\ pieces = <<>>
    /\ cmd = Unset /\ status = Unset /\ args = Unset
    /\ code = 0 /\ outcome = Unset

InitCommand ==
    /\ fam = "RobocopyCommand"
    /\ pc = "start"
    /\ a = Unset /\ b = Unset /\ c = Unset
    /\ sum = Unset /\ swapped = Unset /\ left = Unset /\ right = Unset
    /\ subject = Unset /\ variants = <<>> /\ tokens = Unset
    /\ operands = <<>> /\ pieces = <<>>
    /\ cmd \in Commands
    /\ status = Unset /\ args = Unset
    /\ code = 0 /\ outcome = Unset

InitExit ==
    /\ fam = "OkExitCode"
    /\ pc = "start"
    /\ a = Unset /\ b = Unset /\ c = Unset
    /\ sum = Unset /\ swapped = Unset /\ left = Unset /\ right = Unset
    /\ subject = Unset /\ variants = <<>> /\ tokens = Unset
    /\ operands = <<>> /\ pieces = <<>>
    /\ cmd = Unset /\ status = Unset /\ args = Unset
    /\ code \in I8
    /\ outcome = Unset

\* The orders in which a caller can write the flags of a vocabulary.
Orders(flags) ==
    { o \in [1..Len(flags) -> Range(flags)] :
        \A i, j \in 1..Len(flags) : i # j => o[i] # o[j] }

\* A caller sets out to build the full FileProperties value: directly
\* with all(), or by adding the six single flags in some order.
InitAccumulate ==
    /\ fam = "FileProperties"
    /\ pc = "pieces"
    /\ a = Unset /\ b = Unset /\ c = Unset
    /\ sum = Unset /\ swapped = Unset /\ left = Unset /\ right = Unset
    /\ subject = Unset /\ variants = <<>> /\ tokens = Unset
    /\ operands \in { << FileProperties_all >> } \cup Orders(FileProperties_VARIANTS)
    /\ pieces = operands
    /\ cmd = Unset /\ status = Unset /\ args = Unset
    /\ code = 0 /\ outcome = Unset

\* The longest chain of DirectoryExclusionFilter operands a caller writes.
MaxChain == 3

\* A caller writes a chain x1 + x2 (+ x3 ...) of DirectoryExclusionFilter
\* values: any variant in any position.
InitSequence ==
    /\ fam = "DirectoryExclusionFilter"
    /\ pc = "pieces"
    /\ a = Unset /\ b = Unset /\ c = Unset
    /\ sum = Unset /\ swapped = Unset /\ left = Unset /\ right = Unset
    /\ subject = Unset /\ variants = <<>> /\ tokens = Unset
    /\ \E n \in 2..MaxChain : operands \in [1..n -> DirectoryExclusionFilterValues]
    /\ pieces = operands
    /\ cmd = Unset /\ status = Unset /\ args = Unset
    /\ code = 0 /\ outcome = Unset

\* The most single flags a caller adds to none(), one at a time.
MaxAdds == 4

\* The families with a none() constructor, its value, and their single
\* flags.
NoneFamilies == { "FileProperties", "DirectoryProperties", "FileAttributes" }
NoneOf(family) ==
    CASE family = "FileProperties" -> FileProperties_none
      [] family = "DirectoryProperties" -> DirectoryProperties_none
      [] family = "FileAttributes" -> FileAttributes_none
SingleFlags(family) ==
    CASE family = "FileProperties" -> Range(FileProperties_VARIANTS)
      [] family = "DirectoryProperties" -> Range(DirectoryProperties_VARIANTS)
      [] family = "FileAttributes" -> Range(FileAttributes_VARIANTS)

\* let mut acc = X::none();  -- operands lists the flags added so far,
\* pieces holds acc.
InitFold ==
    /\ fam \in NoneFamilies
    /\ pc = "accumulating"
    /\ a = Unset /\ b = Unset /\ c = Unset
    /\ sum = Unset /\ swapped = Unset /\ left = Unset /\ right = Unset
    /\ subject = Unset /\ variants = <<>> /\ tokens = Unset
    /\ operands = <<>>
    /\ pieces = << NoneOf(fam) >>
    /\ cmd = Unset /\ status = Unset /\ args = Unset
    /\ code = 0 /\ outcome = Unset

Init ==
    \/ InitAlgebra \/ InitAccumulate \/ InitSequence \/ InitFold
    \/ InitCommand \/ InitExit

(***************************************************************************)
(* Actions: one per operation a caller applies.                            *)
(***************************************************************************)
\* a + rhs
Combine ==
    /\ fam \in Families /\ pc = "start"
    /\ \E rhs \in Operands(fam), overflow_checks \in BOOLEAN :
          /\ b' = rhs
          /\ sum' = Add(fam, a, rhs, overflow_checks)
    /\ pc' = "combined"
    /\ UNCHANGED << fam, a, c, swapped, left, right, subject, variants, tokens,
                    operands, pieces, cmd, status, args, code, outcome >>

\* b + a
CombineSwapped ==
    /\ fam \in Families /\ pc = "combined"
    /\ \E overflow_checks \in BOOLEAN : swapped' = Add(fam, b, a, overflow_checks)
    /\ pc' = "swapped"
    /\ UNCHANGED << fam, a, b, c, sum, left, right, subject, variants, tokens,
                    operands, pieces, cmd, status, args, code, outcome >>

\* (a + b) + third, from the a + b the caller holds
CombineLeft ==
    /\ fam \in Families /\ pc = "swapped"
    /\ \E third \in ThirdOperands(fam), overflow_checks \in BOOLEAN :
          /\ c' = third
          /\ left' = AddResults(fam, sum, third, overflow_checks)
    /\ pc' = "left"
    /\ UNCHANGED << fam, a, b, sum, swapped, right, subject, variants, tokens,
                    operands, pieces, cmd, status, args, code, outcome >>

\* a + (b + c)
CombineRight ==
    /\ fam \in Families /\ pc = "left"
    /\ \E overflow_checks \in BOOLEAN :
          right' = AddResults(fam, a, Add(fam, b, c, overflow_checks), overflow_checks)
    /\ pc' = "right"
    /\ UNCHANGED << fam, a, b, c, sum, swapped, left, subject, variants, tokens,
                    operands, pieces, cmd, status, args, code, outcome >>

\* pieces[i] + pieces[i + 1]: one `+` of the expression the caller wrote,
\* whatever its grouping
CombineAdjacent ==
    /\ fam \in Families /\ pc = "pieces"
    /\ \E i \in 1..(Len(pieces) - 1), overflow_checks \in BOOLEAN :
          pieces' = SubSeq(pieces, 1, i - 1)
                    \o << AddResults(fam, pieces[i], pieces[i + 1], overflow_checks) >>
                    \o SubSeq(pieces, i + 2, Len(pieces))
    /\ UNCHANGED << fam, pc, a, b, c, sum, swapped, left, right, subject, variants,
                    tokens, operands, cmd, status, args, code, outcome >>

\* acc = acc + flag, for a single flag of the family
Accumulate ==
    /\ fam \in NoneFamilies /\ pc = "accumulating"
    /\ Len(operands) < MaxAdds
    /\ \E flag \in SingleFlags(fam), overflow_checks \in BOOLEAN :
          /\ operands' = Append(operands, flag)
          /\ pieces' = << AddResults(fam, pieces[1], flag, overflow_checks) >>
    /\ UNCHANGED << fam, pc, a, b, c, sum, swapped, left, right, subject, variants,
                    tokens, cmd, status, args, code, outcome >>

\* v.single_variants(), for the operand a, for the sum the caller holds or
\* for the value of the whole expression
Decompose ==
    /\ fam \in Families
    /\ \/ pc = "start" /\ subject' = a
       \/ pc = "combined" /\ IsValue(sum) /\ subject' = ValueOf(sum)
       \/ pc = "pieces" /\ Len(pieces) = 1 /\ IsValue(pieces[1])
             /\ subject' = ValueOf(pieces[1])
    /\ variants' = SingleVariants(fam, subject')
    /\ pc' = "decomposed"
    /\ UNCHANGED << fam, a, b, c, sum, swapped, left, right, tokens,
                    operands, pieces, cmd, status, args, code, outcome >>

\* the token conversion of the value just decomposed
RenderSubject ==
    /\ fam \in Families /\ pc = "decomposed"
    /\ tokens' = Render(fam, subject)
    /\ pc' = "rendered"
    /\ UNCHANGED << fam, a, b, c, sum, swapped, left, right, subject, variants,
                    operands, pieces, cmd, status, args, code, outcome >>

\* RobocopyCommand::execute: build the argument vector, run the process,
\* classify its exit status.
Execute ==
    /\ fam = "RobocopyCommand" /\ pc = "start"
    /\ \E st \in Statuses :
          /\ status' = st
          /\ args' = RobocopyCommand_args(cmd)
          /\ code' = (IF st.tag = "exited" THEN AsI8(st.code) ELSE 0)
          /\ outcome' = RobocopyCommand_execute(cmd, st)
    /\ pc' = "executed"
    /\ UNCHANGED << fam, cmd, algebraVars >>

\* OkExitCode::try_from(code)
TryFrom ==
    /\ fam = "OkExitCode" /\ pc = "start"
    /\ outcome' = OkExitCode_try_from(code)
    /\ pc' = "classified"
    /\ UNCHANGED << fam, code, commandVars, algebraVars >>

NextAlgebra ==
    \/ Combine \/ CombineSwapped \/ CombineLeft \/ CombineRight
    \/ Decompose \/ RenderSubject
NextAccumulate == CombineAdjacent \/ Decompose \/ RenderSubject
NextFold == Accumulate
NextCommand == Execute
NextExit == TryFrom

Next == NextAlgebra \/ CombineAdjacent \/ NextFold \/ NextCommand \/ NextExit

Spec == Init /\ [][Next]_vars
SpecAlgebra == InitAlgebra /\ [][NextAlgebra]_vars
SpecAccumulate == InitAccumulate /\ [][NextAccumulate]_vars
SpecSequence == InitSequence /\ [][NextAccumulate]_vars
SpecFold == InitFold /\ [][NextFold]_vars
SpecCommand == InitCommand /\ [][NextCommand]_vars
SpecExit == InitExit /\ [][NextExit]_vars

(***************************************************************************)
(* Exit classifier properties (checked under SpecExit).                    *)
(***************************************************************************)
\* The name the spec's bit decoding gives a code in 0..15: bit0 =
\* some-copies, bit1 = extra-found, bit2 = mismatches, bit3 = fail.
Bit(n, k) == (n \div (2 ^ k)) % 2 = 1
RECURSIVE JoinWith(_, _)
JoinWith(strs, sep) ==
    IF Len(strs) = 0 THEN ""
    ELSE IF Len(strs) = 1 THEN Head(strs)
    ELSE Head(strs) \o sep \o JoinWith(Tail(strs), sep)
DecodedName(n) ==
    LET parts == ZipFilter(<<"SOME_COPIES", "FAIL", "MISMATCHES", "EXTRA_FOUND">>,
                           <<Bit(n, 0), Bit(n, 3), Bit(n, 2), Bit(n, 1)>>)
    IN  IF parts = <<>> THEN "NO_CHANGE" ELSE JoinWith(parts, "_")

\* C1: try_from(n) is Ok(success outcome) with discriminant n and the
\* bit-decoded name for n in 0..7, Err(Ok(failure outcome)) with
\* discriminant n and the bit-decoded name for n in 8..15,
\* Err(Ok(NO_CHANGE_FATAL_ERROR)) for 16, and the 17 outcomes of 0..16 are
\* pairwise distinct.
C1_KnownCodesClassified ==
    (pc = "classified" /\ code \in 0..16) =>
        /\ code \in 0..7 =>
              /\ outcome.tag = "Ok"
              /\ outcome.code \in DOMAIN OkExitCode
              /\ OkExitCode[outcome.code] = code
              /\ outcome.code = DecodedName(code)
        /\ code \in 8..15 =>
              /\ outcome.tag = "Err" /\ outcome.inner.tag = "Ok"
              /\ outcome.inner.code \in DOMAIN ErrExitCode
              /\ ErrExitCode[outcome.inner.code] = code
              /\ outcome.inner.code = DecodedName(code)
        /\ code = 16 => outcome = Failure("NO_CHANGE_FATAL_ERROR")
        /\ \A m \in 0..16 :
              m # code => OkExitCode_try_from(m) # outcome

C1_Witness ==
    /\ pc = "classified" /\ code = 13
    /\ outcome = Failure("SOME_COPIES_FAIL_MISMATCHES")

\* C2: for every i8 code outside 0..16, try_from returns the
\* unclassifiable error Err(Err(("Invalid exit code", n))) carrying n; it
\* never panics and never returns a named outcome.
C2_UnknownCodesRejected ==
    (pc = "classified" /\ code \notin 0..16) =>
        outcome = Invalid("Invalid exit code", code)

(***************************************************************************)
(* Option algebra properties (checked under SpecAlgebra).                  *)
(***************************************************************************)
\* The tags present in a value: the tags of its single flags.
Tags(family, v) == { f.tag : f \in Range(SingleVariants(family, v)) }
AttribSet(fa) == Tags("FileAttributes", fa)

\* The payloads of a value, order of merging left aside: attribute
\* bundles as sets of attributes, path/name lists as sets of entries.
Payload(family, v) ==
    CASE family = "PostCopyActions" ->
            << IF v.tag = "_MULTIPLE" THEN AttribSet(v.add)
               ELSE IF v.tag = "AddAttribsToFiles" THEN AttribSet(v.attribs) ELSE {},
               IF v.tag = "_MULTIPLE" THEN AttribSet(v.rmv)
               ELSE IF v.tag = "RmvAttribsFromFiles" THEN AttribSet(v.attribs) ELSE {} >>
      [] family = "FileExclusionFilter" ->
            << IF v.tag = "_MULTIPLE"
               THEN (IF v.attribs.some THEN AttribSet(v.attribs.val) ELSE {})
               ELSE IF v.tag = "Attributes" THEN AttribSet(v.attribs) ELSE {},
               IF v.tag \in {"_MULTIPLE", "PathOrName"} THEN Range(v.paths) ELSE {} >>
      [] family = "DirectoryExclusionFilter" ->
            << {}, IF v.tag = "JUNCTION_POINTS" THEN {} ELSE Range(v.paths) >>
      [] family = "PerformanceOptions" ->
            << {}, { PerformanceOptions_performance_choice(v) } >>
      [] OTHER -> << {}, {} >>

Content(family, v) == << Tags(family, v), Payload(family, v) >>

BitArrayFamilies ==
    { "FileProperties", "DirectoryProperties", "FileAttributes",
      "FileAndDirectoryExclusionFilter", "FileExclusionFilterException" }

\* C3: in every bit-array family the tags present in a + b are exactly
\* the tags present in a together with the tags present in b.
C3_PresenceIsUnion ==
    (pc = "combined" /\ fam \in BitArrayFamilies /\ IsValue(sum)) =>
        Tags(fam, sum) = Tags(fam, a) \cup Tags(fam, b)

\* C4: in every family other than PerformanceOptions, a + b completes
\* and returns a value for every pair of operands: it never panics.
C4_AddNeverPanics ==
    (pc = "combined" /\ fam # "PerformanceOptions") => ~IsPanic(sum)

\* C5: in every family other than PerformanceOptions, a + b and b + a
\* have the same present tags and the same merged payloads.
C5_AddCommutes ==
    (pc = "swapped" /\ fam # "PerformanceOptions"
        /\ IsValue(sum) /\ IsValue(swapped)) =>
        Content(fam, sum) = Content(fam, swapped)

\* C6: in every family, (a + b) + c and a + (b + c) are the same combined
\* value: same present tags, same payloads.
C6_AddAssociates ==
    (pc = "right" /\ IsValue(left) /\ IsValue(right)) =>
        Content(fam, ValueOf(left)) = Content(fam, ValueOf(right))

\* What the token of x looks like when x is rendered as a combined value.
SameRendering(family, x, y) == Render(family, x) = Render(family, y)

\* C7: in the families with none(), x + none() and none() + x have
\* exactly the present tags of x and render to the same token as x.
C7_NoneIsIdentity ==
    (pc = "swapped" /\ fam \in NoneFamilies /\ b = NoneOf(fam)) =>
        /\ IsValue(sum) =>
              Tags(fam, sum) = Tags(fam, a) /\ SameRendering(fam, sum, a)
        /\ IsValue(swapped) =>
              Tags(fam, swapped) = Tags(fam, a) /\ SameRendering(fam, swapped, a)

DecomposerFamilies == Families \ { "FileAttributes" }
IsCombined(v) == v.tag \in { "_MULTIPLE", "_BOTH" }

\* concat(render(f) for f in single_variants)
RenderedVariants(family, vs) == Flatten([i \in 1..Len(vs) |-> Render(family, vs[i]).args])

LetterOf(f) ==
    CASE f.tag = "DATA" -> "D"
      [] f.tag = "ATTRIBUTES" -> "A"
      [] f.tag = "TIME_STAMPS" -> "T"
      [] f.tag = "NTFS_ACCESS_CONTROL_LIST" -> "S"
      [] f.tag = "OWNER_INFO" -> "O"
      [] f.tag = "AUDITING_INFO" -> "U"
PrefixOf(family) == IF family = "FileProperties" THEN "/copy:" ELSE "/dcopy:"

\* The tokens of one PerformanceOptions single flag after its own copy of
\* the choice token.
AfterChoice(toks, choice_tok) == SubSeq(toks, Len(choice_tok) + 1, Len(toks))

C9_ScenarioA ==
    (pc = "combined" /\ fam = "FileExclusionFilter"
        /\ a = Attributes(Flag("READ_ONLY")) /\ b = Flag("OLDER")) =>
        /\ IsValue(sum)
        /\ Render(fam, sum) = Tokens(<< "/xa:R", "/xo" >>)

(***************************************************************************)
(* Command properties (checked under SpecCommand).                         *)
(***************************************************************************)
\* The recursion and purge tokens of an argument vector, in order.
IsRecursionToken(t) == t \in { "/mir", "/e", "/s", "/purge" }
RecursionPart(argv) == SelectSeq(argv, IsRecursionToken)

\* C10: when empty_dir_copy, remove_files_and_dirs_not_in_src and
\* overwrite_destination_dir_sec_settings_when_mirror are all set, the
\* recursion/purge tokens are exactly "/mir" then "/e"; otherwise exactly
\* one of "/e" (empty_dir_copy) or "/s" is emitted, "/purge" iff
\* remove_files_and_dirs_not_in_src, never "/mir", and the overwrite flag
\* alone changes no token.
C10_MirrorCollapse ==
    pc = "executed" =>
        /\ ~IsPanic(args)
        /\ LET e == cmd.empty_dir_copy
               r == cmd.remove_files_and_dirs_not_in_src
               o == cmd.overwrite_destination_dir_sec_settings_when_mirror
               part == RecursionPart(args.args)
           IN  IF e /\ r /\ o
               THEN part = << "/mir", "/e" >>
               ELSE /\ part = (IF e THEN <<"/e">> ELSE <<"/s">>)
                               \o (IF r THEN <<"/purge">> ELSE <<>>)
                    /\ ~(e /\ r) =>
                          args = RobocopyCommand_args(
                              [cmd EXCEPT
                                 !.overwrite_destination_dir_sec_settings_when_mirror
                                     = ~o])

C10_Witness ==
    /\ pc = "executed"
    /\ cmd.empty_dir_copy /\ cmd.remove_files_and_dirs_not_in_src
    /\ cmd.overwrite_destination_dir_sec_settings_when_mirror
    /\ cmd.filter.some
    /\ RecursionPart(args.args) = << "/mir", "/e" >>

(***************************************************************************)
(* Whole-expression properties (checked under SpecAccumulate).             *)
(***************************************************************************)
\* The caller wrote all(), or the six single flags once each.
BuildsAllFileProperties ==
    /\ fam = "FileProperties"
    /\ \/ operands = << FileProperties_all >>
       \/ Len(operands) = 6 /\ Range(operands) = Range(FileProperties_VARIANTS)

\* C11: FileProperties::all() renders the single token "/copy:DATSOU",
\* and so does the value of the six single flags added with + in any
\* order and any grouping.
C11_ScenarioC ==
    (pc = "rendered" /\ BuildsAllFileProperties) =>
        tokens = Tokens(<< "/copy:DATSOU" >>)

(***************************************************************************)
(* PerformanceOptions properties (checked under SpecAlgebra).              *)
(***************************************************************************)
ChoiceOf(v) == PerformanceOptions_performance_choice(v)
PerformanceFlags(v) ==
    Tags("PerformanceOptions", v)
    \cap { "DONT_OFFLOAD", "REQUEST_NETWORK_COMPRESSION",
           "COPY_RATHER_THAN_FOLLOW_LINK" }

\* C12: when the choices of a and b differ and neither is Default, a + b
\* returns Err("Performance choices do not match."): no panic, no Ok.
C12_MismatchIsTypedError ==
    (pc = "combined" /\ fam = "PerformanceOptions"
        /\ ChoiceOf(a) # ChoiceOf(b)
        /\ ChoiceOf(a) # ChoiceDefault /\ ChoiceOf(b) # ChoiceDefault) =>
        sum = PerfErr("Performance choices do not match.")

\* x + d (or d + x) gave Ok of a value with the choice of x and the flags
\* of both.
AdoptsChoice(result, x, d) ==
    /\ result.tag = "Ok"
    /\ ChoiceOf(result.val) = ChoiceOf(x)
    /\ PerformanceFlags(result.val) = PerformanceFlags(x) \cup PerformanceFlags(d)

\* C13: for x with a concrete choice and d with the Default choice, both
\* d + x and x + d return Ok of a combined value whose choice is the
\* choice of x and whose flags are the flags of d together with those of x.
C13_DefaultAdoptsChoice ==
    (pc = "swapped" /\ fam = "PerformanceOptions") =>
        /\ (ChoiceOf(a) # ChoiceDefault /\ ChoiceOf(b) = ChoiceDefault) =>
              AdoptsChoice(sum, a, b) /\ AdoptsChoice(swapped, a, b)
        /\ (ChoiceOf(b) # ChoiceDefault /\ ChoiceOf(a) = ChoiceDefault) =>
              AdoptsChoice(sum, b, a) /\ AdoptsChoice(swapped, b, a)

(***************************************************************************)
(* Argument vector properties (checked under SpecCommand).                 *)
(***************************************************************************)
\* The place the spec's global order gives the family of an option token
\* (0 for a token that is not an option token of the commands drawn).
RankOf(t) ==
    CASE t = "/zb" -> 1
      [] t = "/j" -> 2
      [] t \in { "/mir", "/e", "/s" } -> 3
      [] t = "/purge" -> 4
      [] t = "/lev:1" -> 5
      [] t = "/create" -> 6
      [] t = "/copy:DATSOU" -> 7
      [] t = "/dcopy:T" -> 8
      [] t = "/m" -> 9
      [] t = "/ia:A" -> 10
      [] t = "/xn" -> 11
      [] t \in { "/xjd", "/xd", "p1" } -> 12
      [] t = "/xx" -> 13
      [] t = "/is" -> 14
      [] t = "/max:2" -> 15
      [] t = "/min:1" -> 16
      [] t = "/maxage:7" -> 17
      [] t = "/minage:1" -> 18
      [] t = "/maxlad:7" -> 19
      [] t = "/minlad:1" -> 20
      [] t \in { "/fat", "/256" } -> 21
      [] t \in { "/MT:1", "/nooffload", "/sl" } -> 22
      [] t \in { "/r:1", "/reg" } -> 23
      [] t = "/log+:out.log" -> 24
      [] t = "/move" -> 25
      [] t = "/a+:RASHCNET" -> 26
      [] OTHER -> 0

\* The place of the family an optional field holds.
RankOfField(field) ==
    CASE field = "copy_mode" -> 1
      [] field = "unbuffered" -> 2
      [] field = "only_copy_top_n_levels" -> 5
      [] field = "structure_and_size_zero_files_only" -> 6
      [] field = "copy_file_properties" -> 7
      [] field = "copy_dir_properties" -> 8
      [] field = "handle_archive_and_reset" -> 9
      [] field = "include_only_files_with_any_of_these_attribs" -> 10
      [] field = "file_exclusion_filter" -> 11
      [] field = "directory_exclusion_filter" -> 12
      [] field = "file_and_directory_exclusion_filter" -> 13
      [] field = "file_exclusion_filter_exceptions" -> 14
      [] field = "max_size" -> 15
      [] field = "min_size" -> 16
      [] field = "max_age" -> 17
      [] field = "min_age" -> 18
      [] field = "max_last_access_date" -> 19
      [] field = "min_last_access_date" -> 20
      [] field = "filesystem_options" -> 21
      [] field = "performance_options" -> 22
      [] field = "retry_settings" -> 23
      [] field = "logging" -> 24
      [] field = "mv" -> 25
      [] field = "post_copy_actions" -> 26
      [] OTHER -> 0

IsOptionToken(t) == RankOf(t) > 0
OptionTokens(argv) == SelectSeq(argv, IsOptionToken)

\* Setting s is present in command x.
HasSetting(x, s) ==
    IF s.filter THEN x.filter.some /\ x.filter.val[s.field] = s.val
    ELSE x[s.field] = s.val

\* Command x with the family of setting s absent.
WithoutSetting(x, s) ==
    LET absent == IF s.field \in { "unbuffered", "structure_and_size_zero_files_only",
                                   "handle_archive_and_reset" }
                  THEN FALSE ELSE None
    IN  WithSetting(x, [s EXCEPT !.val = absent])

\* The tokens of argv that do not belong to the family at place r.
OtherFamilies(argv, r) ==
    LET NotOfFamily(t) == RankOf(t) # r IN SelectSeq(argv, NotOfFamily)

\* C14: the option tokens of the present families appear in the fixed
\* global order (copy mode, /j, recursion, /purge, /lev, /create, /copy:,
\* /dcopy:, the filter's tokens in their order, filesystem options,
\* performance options, retry settings, logging, move mode, post-copy
\* actions) whatever subset is set, and an absent family contributes no
\* token and leaves the tokens of the other families as they are.
C14_GlobalOrder ==
    pc = "executed" =>
        /\ ~IsPanic(args)
        /\ LET opts == OptionTokens(args.args)
               present == { RankOf(opts[i]) : i \in 1..Len(opts) }
           IN  /\ \A i \in 1..(Len(opts) - 1) : RankOf(opts[i]) <= RankOf(opts[i + 1])
               /\ \A k \in 1..Len(Settings) :
                     LET s == Settings[k]
                         r == RankOfField(s.field)
                     IN  r > 0 =>
                           IF HasSetting(cmd, s)
                           THEN /\ r \in present
                                /\ RobocopyCommand_args(WithoutSetting(cmd, s)).args
                                      = OtherFamilies(args.args, r)
                           ELSE r \notin present

C14_Witness ==
    /\ pc = "executed"
    /\ cmd.post_copy_actions.some
    /\ cmd.filter.some /\ cmd.filter.val.max_size.some
    /\ OptionTokens(args.args) = << "/s", "/max:2", "/a+:RASHCNET" >>

\* C15 as claimed: the source path, the destination path and then the
\* file patterns come after every option token.
C15_PathsLastAsClaimed ==
    pc = "executed" =>
        LET argv == args.args
            n == Len(argv)
            k == Len(cmd.files)
        IN  /\ argv[n - k - 1] = cmd.source
            /\ argv[n - k] = cmd.destination
            /\ SubSeq(argv, n - k + 1, n) = cmd.files
            /\ \A i \in 1..(n - k - 2) : IsOptionToken(argv[i])

\* C15 as amended: the argument vector starts with the source path, the
\* destination path and then the file patterns, in that order, and every
\* token after them is an option token: no path or pattern is appended
\* after an option token.
C15_PathsFirst ==
    pc = "executed" =>
        /\ ~IsPanic(args)
        /\ LET argv == args.args
               n == Len(argv)
               k == Len(cmd.files)
           IN  /\ n >= k + 2
               /\ argv[1] = cmd.source
               /\ argv[2] = cmd.destination
               /\ SubSeq(argv, 3, k + 2) = cmd.files
               /\ \A i \in (k + 3)..n : IsOptionToken(argv[i])

C15_Witness ==
    /\ pc = "executed"
    /\ cmd.source = "src" /\ cmd.destination = "." /\ cmd.files = << "*.txt" >>
    /\ args.args = << "src", ".", "*.txt", "/s" >>

(***************************************************************************)
(* Decomposer properties (checked under SpecAlgebra).                      *)
(***************************************************************************)
\* The tags of a family's single flags in its fixed order: the VARIANTS
\* array where the family has one, then the payload-bearing flags.
Vocabulary(family) ==
    CASE family = "FileProperties" ->
            << "DATA", "ATTRIBUTES", "TIME_STAMPS", "NTFS_ACCESS_CONTROL_LIST",
               "OWNER_INFO", "AUDITING_INFO" >>
      [] family = "DirectoryProperties" -> << "DATA", "ATTRIBUTES", "TIME_STAMPS" >>
      [] family = "FileAttributes" ->
            << "READ_ONLY", "ARCHIVE", "SYSTEM", "HIDDEN", "COMPRESSED",
               "NOT_CONTENT_INDEXED", "ENCRYPTED", "TEMPORARY" >>
      [] family = "PostCopyActions" -> << "AddAttribsToFiles", "RmvAttribsFromFiles" >>
      [] family = "FileExclusionFilter" ->
            << "CHANGED", "OLDER", "NEWER", "JUNCTION_POINTS",
               "Attributes", "PathOrName" >>
      [] family = "DirectoryExclusionFilter" -> << "JUNCTION_POINTS", "PathOrName" >>
      [] family = "FileAndDirectoryExclusionFilter" ->
            << "EXTRA", "LONELY", "JUNCTION_POINTS" >>
      [] family = "FileExclusionFilterException" -> << "MODIFIED", "SAME", "TWEAKED" >>
      [] family = "PerformanceOptions" ->
            << "DONT_OFFLOAD", "REQUEST_NETWORK_COMPRESSION",
               "COPY_RATHER_THAN_FOLLOW_LINK" >>

\* The k-th tag of the vocabulary is present in combined value v: its bit
\* is set, its attribute slot is filled, its path list is not empty.
PresentAt(family, v, k) ==
    CASE family \in { "PostCopyActions", "DirectoryExclusionFilter" } -> TRUE
      [] family = "FileExclusionFilter" ->
            IF k <= 4 THEN v.props[k]
            ELSE IF k = 5 THEN v.attribs.some
            ELSE v.paths # <<>>
      [] OTHER -> v.props[k]

\* The vocabulary tags present in v, in vocabulary order.
PresentTags(family, v) ==
    LET voc == Vocabulary(family)
        Keep(k) == PresentAt(family, v, k)
        kept == SelectSeq([k \in 1..Len(voc) |-> k], Keep)
    IN  [i \in 1..Len(kept) |-> voc[kept[i]]]

\* Single flag f carries the payload that combined value v holds for it.
CarriesPayloadOf(family, f, v) ==
    CASE family = "PostCopyActions" ->
            f.attribs = (IF f.tag = "AddAttribsToFiles" THEN v.add ELSE v.rmv)
      [] family = "FileExclusionFilter" /\ f.tag = "Attributes" ->
            f.attribs = v.attribs.val
      [] family \in { "FileExclusionFilter", "DirectoryExclusionFilter" }
            /\ f.tag = "PathOrName" -> f.paths = v.paths
      [] family = "PerformanceOptions" -> f.choice = v.choice
      [] OTHER -> DOMAIN f = { "tag" }

\* C16: single_variants() of a single flag is the one-element list of that
\* flag; single_variants() of a combined value holds exactly one single
\* flag per present tag (no combined element, no duplicate, no absent
\* tag), each with the payload of its slot, in the family's fixed
\* vocabulary order, and a second call returns the same list.
C16_DecomposerCorrect ==
    (pc \in { "decomposed", "rendered" } /\ fam \in Families) =>
        /\ variants = SingleVariants(fam, subject)
        /\ IF IsCombined(subject)
           THEN /\ [i \in 1..Len(variants) |-> variants[i].tag]
                      = PresentTags(fam, subject)
                /\ \A i \in 1..Len(variants) :
                      CarriesPayloadOf(fam, variants[i], subject)
           ELSE variants = << subject >>

C16_Witness ==
    /\ pc = "decomposed" /\ fam = "FileExclusionFilter"
    /\ subject = FileExclusionFilter_MULTIPLE(
                     Some(Multiple([i \in 1..8 |-> i = 1])), << "p1" >>,
                     << TRUE, TRUE, FALSE, FALSE >>)
    /\ variants = << Flag("CHANGED"), Flag("OLDER"),
                     Attributes(Multiple([i \in 1..8 |-> i = 1])),
                     PathOrName(<< "p1" >>) >>

\* C17: the token conversion and single_variants() return for every
\* value of every family, single or combined, all-false and all-true
\* arrays, an absent attribute payload and an empty path list included:
\* no panic, and no combined element that would reach unreachable!() in a
\* renderer.
C17_RenderAndDecomposeTotal ==
    (pc \in { "decomposed", "rendered" } /\ fam \in Families) =>
        /\ \A i \in 1..Len(variants) : ~IsCombined(variants[i])
        /\ ~IsPanic(Render(fam, subject))
        /\ pc = "rendered" => ~IsPanic(tokens) /\ tokens.tag = "tokens"

C17_Witness ==
    /\ pc = "rendered" /\ fam = "FileExclusionFilter"
    /\ subject = FileExclusionFilter_MULTIPLE(None, <<>>, [i \in 1..4 |-> FALSE])
    /\ variants = <<>>
    /\ tokens = Tokens(<<>>)

(***************************************************************************)
(* Payload properties (checked under SpecAlgebra).                         *)
(***************************************************************************)
\* v holds a path/name list with at least one entry.
HoldsPaths(v) == v.tag \in { "PathOrName", "_MULTIPLE", "_BOTH" } /\ v.paths # <<>>

\* argv holds the bare flag token once, followed at once by the entries.
FlagThenEntries(argv, flag, entries) ==
    /\ Cardinality({ i \in 1..Len(argv) : argv[i] = flag }) = 1
    /\ \E i \in 1..Len(argv) :
          /\ argv[i] = flag
          /\ SubSeq(argv, i + 1, i + Len(entries)) = entries

\* C18: in FileExclusionFilter and DirectoryExclusionFilter, a value
\* holding path/name list p plus a value holding list q is a value whose
\* list is p followed by q, and it renders the bare flag token ("/xf",
\* "/xd") exactly once, followed at once by the entries in that order.
C18_PathListsConcatenate ==
    (pc = "combined"
        /\ fam \in { "FileExclusionFilter", "DirectoryExclusionFilter" }
        /\ HoldsPaths(a) /\ HoldsPaths(b)) =>
        /\ IsValue(sum)
        /\ sum.paths = a.paths \o b.paths
        /\ ~IsPanic(Render(fam, sum))
        /\ FlagThenEntries(Render(fam, sum).args,
                           IF fam = "FileExclusionFilter" THEN "/xf" ELSE "/xd",
                           a.paths \o b.paths)

\* v carries an attribute payload; the payload it carries.
HoldsAttribs(v) == v.tag = "Attributes" \/ (v.tag = "_MULTIPLE" /\ v.attribs.some)
AttribsOf(v) == IF v.tag = "Attributes" THEN v.attribs ELSE v.attribs.val

\* The letters of a set of attributes in the order R,A,S,H,C,N,E,T.
LettersOf(attribs) ==
    LET names == << "READ_ONLY", "ARCHIVE", "SYSTEM", "HIDDEN", "COMPRESSED",
                    "NOT_CONTENT_INDEXED", "ENCRYPTED", "TEMPORARY" >>
        letters == << "R", "A", "S", "H", "C", "N", "E", "T" >>
    IN  Concat([i \in 1..8 |-> IF names[i] \in attribs THEN letters[i] ELSE ""])

\* C19: when both operands of a FileExclusionFilter sum carry an
\* attribute payload, the sum is a value whose payload holds exactly the
\* attributes of both, and its "/xa:" token lists them all in the order
\* R,A,S,H,C,N,E,T.
C19_AttributePayloadsUnite ==
    (pc = "combined" /\ fam = "FileExclusionFilter"
        /\ HoldsAttribs(a) /\ HoldsAttribs(b)) =>
        LET both == AttribSet(AttribsOf(a)) \cup AttribSet(AttribsOf(b))
        IN  /\ IsValue(sum)
            /\ HoldsAttribs(sum)
            /\ AttribSet(AttribsOf(sum)) = both
            /\ ~IsPanic(Render(fam, sum))
            /\ \E i \in 1..Len(Render(fam, sum).args) :
                  Render(fam, sum).args[i] = "/xa:" \o LettersOf(both)

\* result is a value rendering "/a+:" with the letters of added (when
\* adding is TRUE) and "/a-:" with the letters of removed (when removing
\* is TRUE), and no other token.
RendersRoles(result, adding, added, removing, removed) ==
    /\ IsValue(result)
    /\ Range(Render("PostCopyActions", result).args)
          = (IF adding THEN { "/a+:" \o LettersOf(added) } ELSE {})
            \cup (IF removing THEN { "/a-:" \o LettersOf(removed) } ELSE {})

\* C20: AddAttribsToFiles(A) + RmvAttribsFromFiles(R), in either order,
\* renders "/a+:" with exactly the letters of A and "/a-:" with exactly
\* the letters of R; AddAttribsToFiles(A) + AddAttribsToFiles(B) renders
\* "/a+:" with the letters of A and B together and no "/a-:" token.
C20_RolesKeptApart ==
    (pc = "swapped" /\ fam = "PostCopyActions") =>
        /\ (a.tag = "AddAttribsToFiles" /\ b.tag = "RmvAttribsFromFiles") =>
              /\ RendersRoles(sum, TRUE, AttribSet(a.attribs), TRUE, AttribSet(b.attribs))
              /\ RendersRoles(swapped, TRUE, AttribSet(a.attribs),
                              TRUE, AttribSet(b.attribs))
        /\ (a.tag = "RmvAttribsFromFiles" /\ b.tag = "AddAttribsToFiles") =>
              /\ RendersRoles(sum, TRUE, AttribSet(b.attribs), TRUE, AttribSet(a.attribs))
              /\ RendersRoles(swapped, TRUE, AttribSet(b.attribs),
                              TRUE, AttribSet(a.attribs))
        /\ (a.tag = "AddAttribsToFiles" /\ b.tag = "AddAttribsToFiles") =>
              RendersRoles(sum, TRUE, AttribSet(a.attribs) \cup AttribSet(b.attribs),
                           FALSE, {})

(***************************************************************************)
(* Chain properties of DirectoryExclusionFilter (checked under             *)
(* SpecSequence).                                                          *)
(***************************************************************************)
\* Some operand of the chain the caller wrote carries the junction-points
\* tag.
JunctionWritten ==
    \E i \in 1..Len(operands) : operands[i].tag \in { "JUNCTION_POINTS", "_BOTH" }

\* C21: when any operand of a chain of DirectoryExclusionFilter additions
\* is JUNCTION_POINTS or _BOTH(..), the value of the chain, whatever its
\* grouping, is _BOTH(..) and its rendering contains "/xjd".
C21_JunctionNeverLost ==
    (pc = "rendered" /\ fam = "DirectoryExclusionFilter"
        /\ Len(operands) >= 2 /\ JunctionWritten) =>
        /\ subject.tag = "_BOTH"
        /\ ~IsPanic(tokens)
        /\ "/xjd" \in Range(tokens.args)

(***************************************************************************)
(* Accumulation from none() (checked under SpecFold).                      *)
(***************************************************************************)
\* The tags of the flags added so far.
AddedTags == { operands[i].tag : i \in 1..Len(operands) }

\* C22: starting from none() of FileProperties, DirectoryProperties or
\* FileAttributes and adding single flags one at a time as the right
\* operand, no addition panics and acc holds exactly the flags added so
\* far: its array has exactly their entries set and it decomposes into
\* exactly them (a flag added twice is held once).
C22_AccumulateFromNone ==
    (pc = "accumulating" /\ fam \in NoneFamilies) =>
        LET voc == Vocabulary(fam)
        IN  /\ IsValue(pieces[1])
            /\ pieces[1] = Multiple([k \in 1..Len(voc) |-> voc[k] \in AddedTags])
            /\ Tags(fam, pieces[1]) = AddedTags

\* Three additions to FileAttributes::none(), one flag added twice.
C22_Witness ==
    /\ pc = "accumulating" /\ fam = "FileAttributes"
    /\ operands = << Flag("TEMPORARY"), Flag("READ_ONLY"), Flag("TEMPORARY") >>
    /\ pieces = << Multiple([k \in 1..8 |-> k \in {1, 8}]) >>

(***************************************************************************)
(* Exit status narrowing (checked under SpecCommand).                      *)
(***************************************************************************)
\* C23: execute classifies the i32 exit status narrowed to a signed 8-bit
\* value (the status modulo 2^8, read as two's complement), so statuses
\* equal modulo 256 get the same outcome; 256 is reported as the success
\* NO_CHANGE and 264 as the failure FAIL.
C23_StatusNarrowedToI8 ==
    (pc = "executed" /\ status.tag = "exited") =>
        /\ code \in I8 /\ (status.code - code) % 256 = 0
        /\ \A other \in ExitStatuses :   \* each pair is compared once
              (other < status.code /\ other % 256 = status.code % 256) =>
                  RobocopyCommand_execute(cmd, Exited(other)) = outcome
        /\ ~IsPanic(args) =>
              /\ outcome = OkExitCode_try_from(code)
              /\ (status.code = 256) => outcome = Success("NO_CHANGE")
              /\ (status.code = 264) => outcome = Failure("FAIL")

\* The process exited with status 264 and execute returned FAIL.
C23_Witness ==
    /\ pc = "executed" /\ status = Exited(264)
    /\ code = 8
    /\ outcome = Failure("FAIL")

====
